---- MODULE Spec2Model ----
(***************************************************************************)
(* The cURL translator of the REST client: CurlUtils.apiRequestToCurl      *)
(* (export), CurlUtils.curlToApiRequest (import) and parseFullUrl (URL     *)
(* splitter).  A JavaScript string is a sequence of one-character strings. *)
(* Then the components around it, each with a specification of its own:    *)
(* the request slice of the store with the Import cURL button (StoreSpec), *)
(* the useApiRequest hook (HookSpec, HookLive), the request history of     *)
(* RequestStorageService (HistorySpec) and BatchCommand (BatchSpec).  In   *)
(* each specification the variables of the other components keep their    *)
(* initial values.                                                         *)
(***************************************************************************)
EXTENDS Integers, Sequences, FiniteSets, TLC

VARIABLES pc, inp, out, store, hook, history, batch

vars == <<pc, inp, out, store, hook, history, batch>>

(* ---------------------------------------------------------------------- *)
(* JavaScript string primitives                                           *)
(* ---------------------------------------------------------------------- *)
SP == " "
NL == "\n"
TAB == "\t"
DQ == "\""
SQ == "'"
BS == "\\"
(* A lone UTF-16 surrogate code unit (U+D800), a legal element of a JS string *)
SURR == "<D800>"

IsWs(c) == c \in {SP, NL, TAB}

Sub(s, a, b) == IF a > b THEN << >> ELSE SubSeq(s, a, b)

StartsWith(s, p) == Len(p) <= Len(s) /\ Sub(s, 1, Len(p)) = p

EndsWith(s, p) == Len(p) <= Len(s) /\ Sub(s, Len(s) - Len(p) + 1, Len(s)) = p

Includes(s, p) == \E i \in 1..(Len(s) - Len(p) + 1) : Sub(s, i, i + Len(p) - 1) = p

(* String.prototype.indexOf for a one-character needle, 0-based, -1 if absent *)
IndexOf(s, c) ==
    IF \E i \in 1..Len(s) : s[i] = c
    THEN (CHOOSE i \in 1..Len(s) : s[i] = c /\ \A j \in 1..(i - 1) : s[j] # c) - 1
    ELSE -1

(* first position of the whitespace run that ends at position i (i + 1 if none) *)
RECURSIVE WsRunStart(_, _)
WsRunStart(s, i) == IF i >= 1 /\ IsWs(s[i]) THEN WsRunStart(s, i - 1) ELSE i + 1

(* end of the whitespace run that starts at position i (i - 1 if none) *)
RECURSIVE WsRunEnd(_, _)
WsRunEnd(s, i) == IF i <= Len(s) /\ IsWs(s[i]) THEN WsRunEnd(s, i + 1) ELSE i - 1

(* String.prototype.trim *)
Trim(s) == Sub(s, WsRunEnd(s, 1) + 1, WsRunStart(s, Len(s)) - 1)

(* the concatenation of the strings ss[lo..hi], by halves *)
RECURSIVE Flatten(_, _, _)
Flatten(ss, lo, hi) ==
    IF lo > hi THEN << >>
    ELSE IF lo = hi THEN ss[lo]
    ELSE Flatten(ss, lo, (lo + hi) \div 2) \o Flatten(ss, ((lo + hi) \div 2) + 1, hi)

(* Array.prototype.join *)
Join(ss, sep) ==
    Flatten([i \in 1..(2 * Len(ss) - 1) |-> IF i % 2 = 1 THEN ss[(i + 1) \div 2] ELSE sep],
            1, 2 * Len(ss) - 1)

(* replace every character c of s by the string f[c] *)
FlatMap(s, f) == Flatten([i \in 1..Len(s) |-> f[s[i]]], 1, Len(s))

(* st after the steps Step(st, s[lo]), ..., Step(st, s[hi]) of a loop over s, by halves
   (st # st is FALSE: it has TLC evaluate st before descending) *)
RECURSIVE Fold(_, _, _, _, _)
Fold(Step(_, _), s, lo, hi, st) ==
    IF st # st \/ lo > hi THEN st
    ELSE IF lo = hi THEN Step(st, s[lo])
    ELSE Fold(Step, s, ((lo + hi) \div 2) + 1, hi, Fold(Step, s, lo, (lo + hi) \div 2, st))

Lower == <<"a", "b", "c", "d", "e", "f", "g", "h", "i", "j", "k", "l", "m",
           "n", "o", "p", "q", "r", "s", "t", "u", "v", "w", "x", "y", "z">>

Upper == <<"A", "B", "C", "D", "E", "F", "G", "H", "I", "J", "K", "L", "M",
           "N", "O", "P", "Q", "R", "S", "T", "U", "V", "W", "X", "Y", "Z">>

IsLower(c) == \E i \in 1..26 : Lower[i] = c

IsUpper(c) == \E i \in 1..26 : Upper[i] = c

IsAlpha(c) == IsLower(c) \/ IsUpper(c)

ToUpperChar(c) == IF IsLower(c) THEN Upper[CHOOSE i \in 1..26 : Lower[i] = c] ELSE c

ToLowerChar(c) == IF IsUpper(c) THEN Lower[CHOOSE i \in 1..26 : Upper[i] = c] ELSE c

ToUpper(s) == [i \in 1..Len(s) |-> ToUpperChar(s[i])]

ToLower(s) == [i \in 1..Len(s) |-> ToLowerChar(s[i])]

(* ---------------------------------------------------------------------- *)
(* curlToApiRequest, lines 97-101: line continuations and whitespace       *)
(* ---------------------------------------------------------------------- *)
(* the backslash at position i starts a match of /\\\s*\n\s*/ *)
IsContinuation(s, i) ==
    i >= 1 /\ s[i] = BS /\ \E j \in (i + 1)..WsRunEnd(s, i + 1) : s[j] = NL

(* .replace(/\\\s*\n\s*/g, ' '): a backslash followed by a whitespace run that
   holds a line break is replaced, with the whole run, by one space *)
ReplaceContinuations(s) ==
    Flatten([i \in 1..Len(s) |->
               IF IsContinuation(s, i) THEN <<SP>>
               ELSE IF IsWs(s[i]) /\ IsContinuation(s, WsRunStart(s, i) - 1) THEN << >>
               ELSE <<s[i]>>], 1, Len(s))

(* .replace(/\s+/g, ' ') *)
CollapseWs(s) ==
    Flatten([i \in 1..Len(s) |->
               IF ~IsWs(s[i]) THEN <<s[i]>>
               ELSE IF i > 1 /\ IsWs(s[i - 1]) THEN << >>
               ELSE <<SP>>], 1, Len(s))

normalized(curlCommand) == Trim(CollapseWs(ReplaceContinuations(curlCommand)))

(* ---------------------------------------------------------------------- *)
(* CurlUtils.tokenizeCurlCommand                                          *)
(* ---------------------------------------------------------------------- *)
(* lines 264-267: the loop's variables *)
TokenizerStart == [tokens |-> << >>, current |-> << >>, inQuotes |-> FALSE, quoteChar |-> ""]

(* TokenizeStep with a quoted region closed by either quote character *)
TokenizeStepAnyQuoteCloses(st, char) ==
    IF ~st.inQuotes /\ (char = DQ \/ char = SQ)
    THEN [st EXCEPT !.inQuotes = TRUE, !.quoteChar = char, !.current = Append(@, char)]
    ELSE IF st.inQuotes /\ (char = DQ \/ char = SQ)
    THEN [st EXCEPT !.inQuotes = FALSE, !.current = Append(@, char), !.quoteChar = ""]
    ELSE IF ~st.inQuotes /\ char = SP
    THEN IF Trim(st.current) # << >>
         THEN [st EXCEPT !.tokens = Append(@, Trim(st.current)), !.current = << >>]
         ELSE st
    ELSE [st EXCEPT !.current = Append(@, char)]

(* lines 270-287: the body of the loop for one character *)
TokenizeStep(st, char) ==
    IF ~st.inQuotes /\ (char = DQ \/ char = SQ)
    THEN [st EXCEPT !.inQuotes = TRUE, !.quoteChar = char, !.current = Append(@, char)]
    ELSE IF st.inQuotes /\ char = st.quoteChar
    THEN [st EXCEPT !.inQuotes = FALSE, !.current = Append(@, char), !.quoteChar = ""]
    ELSE IF ~st.inQuotes /\ char = SP
    THEN IF Trim(st.current) # << >>
         THEN [st EXCEPT !.tokens = Append(@, Trim(st.current)), !.current = << >>]
         ELSE st
    ELSE [st EXCEPT !.current = Append(@, char)]

(* lines 290-294: the last token *)
TokenizeEnd(st) ==
    IF Trim(st.current) # << >> THEN Append(st.tokens, Trim(st.current)) ELSE st.tokens

tokenizeCurlCommand(command) ==
    TokenizeEnd(Fold(TokenizeStep, command, 1, Len(command), TokenizerStart))

(* CurlUtils.unquoteString *)
unquoteString(str) ==
    IF (StartsWith(str, <<DQ>>) /\ EndsWith(str, <<DQ>>))
       \/ (StartsWith(str, <<SQ>>) /\ EndsWith(str, <<SQ>>))
    THEN Sub(str, 2, Len(str) - 1)
    ELSE str

(* CurlUtils.escapeQuotes: str.replace(/"/g, '\\"') *)
escapeQuotes(str) == FlatMap(str, [c \in {str[i] : i \in 1..Len(str)} |->
                                      IF c = DQ THEN <<BS, DQ>> ELSE <<c>>])

(* CurlUtils.escapeSingleQuotes: str.replace(/'/g, "'\\''") *)
escapeSingleQuotes(str) == FlatMap(str, [c \in {str[i] : i \in 1..Len(str)} |->
                                      IF c = SQ THEN <<SQ, BS, SQ, SQ>> ELSE <<c>>])

(* CurlUtils.isXmlString *)
isXmlString(str) == StartsWith(Trim(str), <<"<">>) /\ Includes(Trim(str), <<">">>)

(* ---------------------------------------------------------------------- *)
(* Record<string, string>: a JavaScript object as the sequence of its own  *)
(* properties <<key, value>> in property order (integer-like keys first,   *)
(* ascending, then the other keys in insertion order).  Keys are not names *)
(* of Object.prototype.                                                    *)
(* ---------------------------------------------------------------------- *)
Digits == <<"0", "1", "2", "3", "4", "5", "6", "7", "8", "9">>

IsDigit(c) == \E d \in 1..10 : Digits[d] = c

DigitVal(c) == (CHOOSE d \in 1..10 : Digits[d] = c) - 1

RECURSIVE StrToNat(_)
StrToNat(s) == IF s = << >> THEN 0
               ELSE StrToNat(Sub(s, 1, Len(s) - 1)) * 10 + DigitVal(s[Len(s)])

RECURSIVE NatToStr(_)
NatToStr(n) == IF n < 10 THEN <<Digits[n + 1]>>
               ELSE NatToStr(n \div 10) \o <<Digits[(n % 10) + 1]>>

(* a canonical array index: "0", or digits without a leading zero *)
IsArrayIndex(k) ==
    /\ k # << >>
    /\ \A i \in 1..Len(k) : IsDigit(k[i])
    /\ (Len(k) = 1 \/ k[1] # "0")

ObjHas(obj, k) == \E i \in 1..Len(obj) : obj[i][1] = k

(* obj[k]; a missing property reads as '' here: every use of the value in the
   source tests it for truthiness first, where undefined and '' agree *)
ObjGet(obj, k) ==
    IF ObjHas(obj, k) THEN obj[CHOOSE i \in 1..Len(obj) : obj[i][1] = k][2]
    ELSE << >>

(* obj[k] = v *)
ObjSet(obj, k, v) ==
    IF ObjHas(obj, k)
    THEN [i \in 1..Len(obj) |-> IF obj[i][1] = k THEN <<k, v>> ELSE obj[i]]
    ELSE IF IsArrayIndex(k)
    THEN LET before == {i \in 1..Len(obj) :
                          IsArrayIndex(obj[i][1]) /\ StrToNat(obj[i][1]) < StrToNat(k)}
             n == Cardinality(before)
         IN  Sub(obj, 1, n) \o <<(<<k, v>>)>> \o Sub(obj, n + 1, Len(obj))
    ELSE Append(obj, <<k, v>>)

(* rows.forEach(row => obj[row.key] = row.value), rows already filtered *)
RECURSIVE ObjSetAll(_, _)
ObjSetAll(obj, rows) ==
    IF rows = << >> THEN obj
    ELSE ObjSetAll(ObjSet(obj, rows[1].key, rows[1].value), Tail(rows))

(* ---------------------------------------------------------------------- *)
(* JSON.parse / JSON.stringify on the JSON texts built from objects,       *)
(* arrays, strings (escapes \" \\ \/ \n \t), unsigned integers and the     *)
(* literals true, false, null.  A value is <<tag, payload>>.               *)
(* ---------------------------------------------------------------------- *)
JsonWs(c) == c \in {SP, NL, TAB}

RECURSIVE SkipWs(_, _)
SkipWs(s, i) == IF i <= Len(s) /\ JsonWs(s[i]) THEN SkipWs(s, i + 1) ELSE i

Fail == [ok |-> FALSE, val |-> <<"none", 0>>, pos |-> 0]

Ok(v, p) == [ok |-> TRUE, val |-> v, pos |-> p]

(* the string literal whose opening quote is at i - 1; acc is its value so far *)
RECURSIVE ParseStringBody(_, _, _)
ParseStringBody(s, i, acc) ==
    IF i > Len(s) THEN Fail
    ELSE IF s[i] = DQ THEN Ok(<<"str", acc>>, i + 1)
    ELSE IF s[i] = BS
    THEN IF i + 1 > Len(s) THEN Fail
         ELSE IF s[i + 1] \in {DQ, BS, "/"} THEN ParseStringBody(s, i + 2, Append(acc, s[i + 1]))
         ELSE IF s[i + 1] = "n" THEN ParseStringBody(s, i + 2, Append(acc, NL))
         ELSE IF s[i + 1] = "t" THEN ParseStringBody(s, i + 2, Append(acc, TAB))
         ELSE Fail
    ELSE IF s[i] \in {NL, TAB} THEN Fail
    ELSE ParseStringBody(s, i + 1, Append(acc, s[i]))

RECURSIVE DigitsEnd(_, _)
DigitsEnd(s, i) == IF i <= Len(s) /\ IsDigit(s[i]) THEN DigitsEnd(s, i + 1) ELSE i - 1

ParseNumber(s, i) ==
    LET e == DigitsEnd(s, i)
    IN  IF e < i THEN Fail
        ELSE IF s[i] = "0" /\ e > i THEN Fail
        ELSE Ok(<<"num", StrToNat(Sub(s, i, e))>>, e + 1)

ParseLiteral(s, i, word) ==
    IF Sub(s, i, i + Len(word) - 1) = word /\ i + Len(word) - 1 <= Len(s)
    THEN Ok(<<"lit", word>>, i + Len(word))
    ELSE Fail

RECURSIVE ParseValue(_, _)
RECURSIVE ParseMembers(_, _, _)
RECURSIVE ParseElements(_, _, _)

(* the members of an object after its '{' or after a ','; obj is the object so far *)
ParseMembers(s, i0, obj) ==
    LET i == SkipWs(s, i0)
    IN  IF i > Len(s) \/ s[i] # DQ THEN Fail
        ELSE LET k == ParseStringBody(s, i + 1, << >>)
             IN  IF ~k.ok THEN Fail
                 ELSE LET c == SkipWs(s, k.pos)
                      IN  IF c > Len(s) \/ s[c] # ":" THEN Fail
                          ELSE LET v == ParseValue(s, c + 1)
                               IN  IF ~v.ok THEN Fail
                                   ELSE LET n == SkipWs(s, v.pos)
                                            o2 == ObjSet(obj, k.val[2], v.val)
                                        IN  IF n > Len(s) THEN Fail
                                            ELSE IF s[n] = "}" THEN Ok(<<"obj", o2>>, n + 1)
                                            ELSE IF s[n] = "," THEN ParseMembers(s, n + 1, o2)
                                            ELSE Fail

ParseElements(s, i0, arr) ==
    LET v == ParseValue(s, i0)
    IN  IF ~v.ok THEN Fail
        ELSE LET n == SkipWs(s, v.pos)
                 a2 == Append(arr, v.val)
             IN  IF n > Len(s) THEN Fail
                 ELSE IF s[n] = "]" THEN Ok(<<"arr", a2>>, n + 1)
                 ELSE IF s[n] = "," THEN ParseElements(s, n + 1, a2)
                 ELSE Fail

ParseValue(s, i0) ==
    LET i == SkipWs(s, i0)
    IN  IF i > Len(s) THEN Fail
        ELSE IF s[i] = "{"
        THEN LET j == SkipWs(s, i + 1)
             IN  IF j <= Len(s) /\ s[j] = "}" THEN Ok(<<"obj", << >> >>, j + 1)
                 ELSE ParseMembers(s, i + 1, << >>)
        ELSE IF s[i] = "["
        THEN LET j == SkipWs(s, i + 1)
             IN  IF j <= Len(s) /\ s[j] = "]" THEN Ok(<<"arr", << >> >>, j + 1)
                 ELSE ParseElements(s, i + 1, << >>)
        ELSE IF s[i] = DQ THEN ParseStringBody(s, i + 1, << >>)
        ELSE IF IsDigit(s[i]) THEN ParseNumber(s, i)
        ELSE IF s[i] = "t" THEN ParseLiteral(s, i, <<"t", "r", "u", "e">>)
        ELSE IF s[i] = "f" THEN ParseLiteral(s, i, <<"f", "a", "l", "s", "e">>)
        ELSE IF s[i] = "n" THEN ParseLiteral(s, i, <<"n", "u", "l", "l">>)
        ELSE Fail

(* JSON.parse(str): ok = FALSE stands for the SyntaxError it throws *)
JsonParse(str) ==
    LET v == ParseValue(str, 1)
    IN  IF v.ok /\ SkipWs(str, v.pos) = Len(str) + 1 THEN v ELSE Fail

(* the quoted form of a string value *)
JsonQuote(str) ==
    <<DQ>> \o FlatMap(str, [c \in {str[i] : i \in 1..Len(str)} |->
                CASE c = DQ -> <<BS, DQ>>
                  [] c = BS -> <<BS, BS>>
                  [] c = NL -> <<BS, "n">>
                  [] c = TAB -> <<BS, "t">>
                  [] c = SURR -> <<BS, "u", "d", "8", "0", "0">>
                  [] OTHER -> <<c>>]) \o <<DQ>>

Spaces(n) == [i \in 1..n |-> SP]

(* JSON.stringify(value, null, gap) at nesting depth d; gap = 0 is the compact form *)
RECURSIVE JsonStringify(_, _, _)
JsonStringify(v, gap, d) ==
    LET nl == IF gap = 0 THEN << >> ELSE <<NL>> \o Spaces(gap * (d + 1))
        close == IF gap = 0 THEN << >> ELSE <<NL>> \o Spaces(gap * d)
        colon == IF gap = 0 THEN <<":">> ELSE <<":", SP>>
    IN  CASE v[1] = "str" -> JsonQuote(v[2])
          [] v[1] = "num" -> NatToStr(v[2])
          [] v[1] = "lit" -> v[2]
          [] v[1] = "obj" ->
               IF v[2] = << >> THEN <<"{", "}">>
               ELSE <<"{">> \o nl
                    \o Join([i \in 1..Len(v[2]) |->
                               JsonQuote(v[2][i][1]) \o colon
                               \o JsonStringify(v[2][i][2], gap, d + 1)],
                            <<",">> \o nl)
                    \o close \o <<"}">>
          [] v[1] = "arr" ->
               IF v[2] = << >> THEN <<"[", "]">>
               ELSE <<"[">> \o nl
                    \o Join([i \in 1..Len(v[2]) |-> JsonStringify(v[2][i], gap, d + 1)],
                            <<",">> \o nl)
                    \o close \o <<"]">>

(* CurlUtils.isJsonString *)
isJsonString(str) == JsonParse(str).ok

(* CurlUtils.tryFormatJson *)
tryFormatJson(str) ==
    LET parsed == JsonParse(str)
    IN  IF parsed.ok THEN JsonStringify(parsed.val, 2, 0) ELSE str

(* ---------------------------------------------------------------------- *)
(* The URL constructor, URLSearchParams and encodeURIComponent, on the     *)
(* strings of the model: strings without a scheme (new URL throws) and     *)
(* http(s)://host[/path][?query][#hash] without credentials, port or dot   *)
(* segments.                                                               *)
(* ---------------------------------------------------------------------- *)
IsAlnum(c) == IsAlpha(c) \/ IsDigit(c)

(* the two hex digits of the UTF-8 byte of an ASCII character *)
PctCode(c) ==
    CASE c = SP -> <<"%", "2", "0">>    [] c = DQ -> <<"%", "2", "2">>
      [] c = "#" -> <<"%", "2", "3">>   [] c = "%" -> <<"%", "2", "5">>
      [] c = "&" -> <<"%", "2", "6">>   [] c = SQ -> <<"%", "2", "7">>
      [] c = "+" -> <<"%", "2", "B">>   [] c = "," -> <<"%", "2", "C">>
      [] c = "/" -> <<"%", "2", "F">>   [] c = ":" -> <<"%", "3", "A">>
      [] c = "<" -> <<"%", "3", "C">>   [] c = "=" -> <<"%", "3", "D">>
      [] c = ">" -> <<"%", "3", "E">>   [] c = "?" -> <<"%", "3", "F">>
      [] c = BS -> <<"%", "5", "C">>    [] c = "{" -> <<"%", "7", "B">>
      [] c = "}" -> <<"%", "7", "D">>   [] c = NL -> <<"%", "0", "A">>
      [] c = TAB -> <<"%", "0", "9">>
      [] c = SURR -> <<"%", "E", "F", "%", "B", "F", "%", "B", "D">>
      [] OTHER -> <<c>>

PctChars == {SP, DQ, "#", "%", "&", SQ, "+", ",", "/", ":", "<", "=", ">", "?", BS,
             "{", "}", NL, TAB}

CharsOf(s) == {s[i] : i \in 1..Len(s)}

(* percent-encode the characters of s that are in the set enc *)
PctEncode(s, enc) == FlatMap(s, [c \in CharsOf(s) |-> IF c \in enc THEN PctCode(c) ELSE <<c>>])

RECURSIVE PctDecode(_, _)
PctDecode(s, i) ==
    IF i > Len(s) THEN << >>
    ELSE IF s[i] = "%" /\ i + 2 <= Len(s)
            /\ \E c \in PctChars : PctCode(c) = Sub(s, i, i + 2)
    THEN <<CHOOSE c \in PctChars : PctCode(c) = Sub(s, i, i + 2)>> \o PctDecode(s, i + 3)
    ELSE <<s[i]>> \o PctDecode(s, i + 1)

(* encodeURIComponent: "raised" stands for the URIError thrown on a lone surrogate *)
encodeURIComponent(s) ==
    IF SURR \in CharsOf(s) THEN [raised |-> TRUE, val |-> << >>]
    ELSE [raised |-> FALSE,
          val |-> FlatMap(s, [c \in CharsOf(s) |->
                     IF IsAlnum(c) \/ c \in {"-", "_", ".", "!", "~", "*", SQ, "(", ")"}
                     THEN <<c>> ELSE PctCode(c)])]

(* application/x-www-form-urlencoded byte serializer *)
FormEncode(s) ==
    FlatMap(s, [c \in CharsOf(s) |->
        IF IsAlnum(c) \/ c \in {"*", "-", ".", "_"} THEN <<c>>
        ELSE IF c = SP THEN <<"+">> ELSE PctCode(c)])

(* split s at every occurrence of the character c *)
RECURSIVE SplitOn(_, _)
SplitOn(s, c) ==
    LET k == IndexOf(s, c)
    IN  IF k < 0 THEN <<s>> ELSE <<Sub(s, 1, k)>> \o SplitOn(Sub(s, k + 2, Len(s)), c)

PlusToSpace(s) == [i \in 1..Len(s) |-> IF s[i] = "+" THEN SP ELSE s[i]]

SelectNonEmpty(ss) == SelectSeq(ss, LAMBDA x : x # << >>)

(* application/x-www-form-urlencoded parser: the list of <<name, value>> *)
FormParse(query) ==
    LET items == SelectNonEmpty(SplitOn(query, "&"))
    IN  [i \in 1..Len(items) |->
           LET k == IndexOf(items[i], "=")
               name == IF k < 0 THEN items[i] ELSE Sub(items[i], 1, k)
               value == IF k < 0 THEN << >> ELSE Sub(items[i], k + 2, Len(items[i]))
           IN  <<PctDecode(PlusToSpace(name), 1), PctDecode(PlusToSpace(value), 1)>>]

(* application/x-www-form-urlencoded serializer *)
FormSerialize(list) ==
    Join([i \in 1..Len(list) |-> FormEncode(list[i][1]) \o <<"=">> \o FormEncode(list[i][2])],
         <<"&">>)

(* SearchParamsSet as URLSearchParams.append *)
SearchParamsAppend(list, name, value) == Append(list, <<name, value>>)

(* URLSearchParams.set: the first entry named name takes the value, the other
   entries of that name are removed; appended when there is none *)
SearchParamsSet(list, name, value) ==
    IF \E i \in 1..Len(list) : list[i][1] = name
    THEN LET first == CHOOSE i \in 1..Len(list) :
                         list[i][1] = name /\ \A j \in 1..(i - 1) : list[j][1] # name
             upd == [i \in 1..Len(list) |-> IF i = first THEN <<name, value>> ELSE list[i]]
             keep == {i \in 1..Len(list) : i = first \/ list[i][1] # name}
             idx == [n \in 1..Cardinality(keep) |->
                       CHOOSE i \in keep : Cardinality({j \in keep : j <= i}) = n]
         IN  [n \in 1..Cardinality(keep) |-> upd[idx[n]]]
    ELSE Append(list, <<name, value>>)

(* position of the first character of s at or after i that is in set cs (Len+1 if none) *)
RECURSIVE FindAny(_, _, _)
FindAny(s, i, cs) == IF i > Len(s) \/ s[i] \in cs THEN i ELSE FindAny(s, i + 1, cs)

HttpPrefix == <<"h", "t", "t", "p", ":", "/", "/">>
HttpsPrefix == <<"h", "t", "t", "p", "s", ":", "/", "/">>

NoUrl == [ok |-> FALSE, protocol |-> << >>, host |-> << >>, pathname |-> << >>,
          query |-> << >>, hasQuery |-> FALSE, hash |-> << >>]

(* new URL(input): ok = FALSE stands for the TypeError it throws.  query is the
   URL's query without '?', hasQuery tells a null query from an empty one, hash
   is the fragment with its '#' ('' when the fragment is null or empty). *)
URLParse(input) ==
    LET s0 == Trim(input)
        s == SelectSeq(s0, LAMBDA c : c \notin {NL, TAB})
        low == ToLower(s)
        isHttps == StartsWith(low, HttpsPrefix)
        isHttp == StartsWith(low, HttpPrefix)
        start == IF isHttps THEN Len(HttpsPrefix) + 1 ELSE Len(HttpPrefix) + 1
        hostEnd == FindAny(s, start, {"/", "?", "#", BS}) - 1
        host == ToLower(Sub(s, start, hostEnd))
        pathEnd == FindAny(s, hostEnd + 1, {"?", "#"}) - 1
        rawPath == Sub(s, hostEnd + 1, pathEnd)
        hasQ == pathEnd + 1 <= Len(s) /\ s[pathEnd + 1] = "?"
        queryEnd == IF hasQ THEN FindAny(s, pathEnd + 2, {"#"}) - 1 ELSE pathEnd
        rawQuery == IF hasQ THEN Sub(s, pathEnd + 2, queryEnd) ELSE << >>
        rawFrag == Sub(s, queryEnd + 2, Len(s))
        path == PctEncode([i \in 1..Len(rawPath) |-> IF rawPath[i] = BS THEN "/" ELSE rawPath[i]],
                          {SP, DQ, "<", ">", "{", "}", SURR})
    IN  IF ~(isHttp \/ isHttps) THEN NoUrl
        ELSE IF host = << >> \/ CharsOf(host) \cap {SP, "<", ">", "%", ":", SURR} # {}
        THEN NoUrl
        ELSE [ok |-> TRUE,
              protocol |-> IF isHttps THEN <<"h", "t", "t", "p", "s", ":">>
                           ELSE <<"h", "t", "t", "p", ":">>,
              host |-> host,
              pathname |-> IF path = << >> THEN <<"/">> ELSE path,
              query |-> PctEncode(rawQuery, {SP, DQ, "<", ">", SQ, SURR}),
              hasQuery |-> hasQ,
              hash |-> IF rawFrag = << >> THEN << >>
                       ELSE <<"#">> \o PctEncode(rawFrag, {SP, DQ, "<", ">", SURR})]

(* url.searchParams as a list of <<name, value>> *)
SearchParams(url) == FormParse(url.query)

(* url.toString() *)
Href(url) ==
    url.protocol \o <<"/", "/">> \o url.host \o url.pathname
    \o (IF url.hasQuery THEN <<"?">> \o url.query ELSE << >>) \o url.hash

(* the URL after its searchParams list was changed to list *)
WithSearchParams(url, list) ==
    [url EXCEPT !.query = FormSerialize(list), !.hasQuery = (FormSerialize(list) # << >>)]

(* ---------------------------------------------------------------------- *)
(* String constants of the source                                         *)
(* ---------------------------------------------------------------------- *)
sCurl == <<"c", "u", "r", "l">>
sGET == <<"G", "E", "T">>
sHEAD == <<"H", "E", "A", "D">>
sAuthorization == <<"A", "u", "t", "h", "o", "r", "i", "z", "a", "t", "i", "o", "n">>
sAuthorizationLower == <<"a", "u", "t", "h", "o", "r", "i", "z", "a", "t", "i", "o", "n">>
sBearer == <<"B", "e", "a", "r", "e", "r", SP>>
sContentType == <<"C", "o", "n", "t", "e", "n", "t", "-", "T", "y", "p", "e">>
sContentTypeLower == <<"c", "o", "n", "t", "e", "n", "t", "-", "t", "y", "p", "e">>
sApplicationJson == <<"a", "p", "p", "l", "i", "c", "a", "t", "i", "o", "n", "/", "j", "s", "o", "n">>
sApplicationXml == <<"a", "p", "p", "l", "i", "c", "a", "t", "i", "o", "n", "/", "x", "m", "l">>
sFormUrlencoded == <<"a", "p", "p", "l", "i", "c", "a", "t", "i", "o", "n", "/", "x", "-", "w", "w", "w", "-", "f", "o", "r", "m", "-", "u", "r", "l", "e", "n", "c", "o", "d", "e", "d">>
sTextPlain == <<"t", "e", "x", "t", "/", "p", "l", "a", "i", "n">>
sDashX == <<"-", "X">>
sRequestFlag == <<"-", "-", "r", "e", "q", "u", "e", "s", "t">>
sDashH == <<"-", "H">>
sHeaderFlag == <<"-", "-", "h", "e", "a", "d", "e", "r">>
sDashD == <<"-", "d">>
sDataFlag == <<"-", "-", "d", "a", "t", "a">>
sDataRawFlag == <<"-", "-", "d", "a", "t", "a", "-", "r", "a", "w">>
sDataBinaryFlag == <<"-", "-", "d", "a", "t", "a", "-", "b", "i", "n", "a", "r", "y">>
sDataUrlencodeFlag == <<"-", "-", "d", "a", "t", "a", "-", "u", "r", "l", "e", "n", "c", "o", "d", "e">>
(* the separator of parts.join(' \\\n  ') *)
PartSeparator == <<SP, BS, NL, SP, SP>>

(* the editor's empty row { key: '', value: '' } (ids are opaque and left out) *)
EmptyRow == [key |-> << >>, value |-> << >>]

(* p.key.trim() && p.value.trim() *)
IsValidRow(row) == Trim(row.key) # << >> /\ Trim(row.value) # << >>

validRows(rows) == SelectSeq(rows, IsValidRow)

(* ---------------------------------------------------------------------- *)
(* CurlUtils.buildRequestBody                                             *)
(* ---------------------------------------------------------------------- *)
(* buildRequestBody without the test for HEAD *)
buildRequestBodyAlsoForHead(request) ==
    IF request.bodyType = "none"
    THEN IF request.method # sGET /\ Len(validRows(request.parameters)) > 0
         THEN LET bodyObj == ObjSetAll(<< >>, validRows(request.parameters))
              IN  JsonStringify(<<"obj", [i \in 1..Len(bodyObj) |->
                                            <<bodyObj[i][1], <<"str", bodyObj[i][2]>> >>]>>,
                                0, 0)
         ELSE << >>
    ELSE request.bodyContent

buildRequestBody(request) ==
    IF request.bodyType = "none"
    THEN IF request.method # sGET /\ request.method # sHEAD
            /\ Len(validRows(request.parameters)) > 0
         THEN LET bodyObj == ObjSetAll(<< >>, validRows(request.parameters))
              IN  JsonStringify(<<"obj", [i \in 1..Len(bodyObj) |->
                                            <<bodyObj[i][1], <<"str", bodyObj[i][2]>> >>]>>,
                                0, 0)
         ELSE << >>
    ELSE request.bodyContent

(* ---------------------------------------------------------------------- *)
(* CurlUtils.apiRequestToCurl                                             *)
(* ---------------------------------------------------------------------- *)
(* methodParts writing -X for GET as well *)
methodPartsAlways(request) == <<sDashX \o <<SP>> \o request.method>>

(* lines 14-17 *)
methodParts(request) ==
    IF request.method # sGET THEN <<sDashX \o <<SP>> \o request.method>> ELSE << >>

(* lines 22-27: the custom headers *)
customHeaders(request) == ObjSetAll(<< >>, validRows(request.headers))

(* withAuthHeader with the Authorization header added beside the user's headers *)
withAuthHeaderAppended(request, headers) ==
    IF Trim(request.authToken) # << >>
    THEN Append(headers, <<sAuthorization, sBearer \o request.authToken>>)
    ELSE headers

(* lines 29-32: the auth token as Authorization header *)
withAuthHeader(request, headers) ==
    IF Trim(request.authToken) # << >>
    THEN ObjSet(headers, sAuthorization, sBearer \o request.authToken)
    ELSE headers

(* withContentType looking only for a header spelled Content-Type *)
withContentTypeCaseSensitive(request, headers) ==
    IF request.method # sGET /\ request.method # sHEAD
       /\ ~\E i \in 1..Len(headers) : headers[i][1] = sContentType
    THEN CASE request.bodyType = "json" -> ObjSet(headers, sContentType, sApplicationJson)
           [] request.bodyType = "xml" -> ObjSet(headers, sContentType, sApplicationXml)
           [] request.bodyType = "form-data" -> ObjSet(headers, sContentType, sFormUrlencoded)
           [] request.bodyType = "raw" -> ObjSet(headers, sContentType, sTextPlain)
           [] request.bodyType = "none" /\ Len(validRows(request.parameters)) > 0 ->
                ObjSet(headers, sContentType, sApplicationJson)
           [] OTHER -> headers
    ELSE headers

(* lines 34-53: Content-Type from the body type, if not already specified *)
withContentType(request, headers) ==
    IF request.method # sGET /\ request.method # sHEAD
       /\ ~\E i \in 1..Len(headers) : ToLower(headers[i][1]) = sContentTypeLower
    THEN CASE request.bodyType = "json" -> ObjSet(headers, sContentType, sApplicationJson)
           [] request.bodyType = "xml" -> ObjSet(headers, sContentType, sApplicationXml)
           [] request.bodyType = "form-data" -> ObjSet(headers, sContentType, sFormUrlencoded)
           [] request.bodyType = "raw" -> ObjSet(headers, sContentType, sTextPlain)
           [] request.bodyType = "none" /\ Len(validRows(request.parameters)) > 0 ->
                ObjSet(headers, sContentType, sApplicationJson)
           [] OTHER -> headers
    ELSE headers

allHeaders(request) ==
    withContentType(request, withAuthHeader(request, customHeaders(request)))

(* lines 55-58 *)
headerPart(key, value) ==
    sDashH \o <<SP, DQ>> \o escapeQuotes(key) \o <<":", SP>> \o escapeQuotes(value) \o <<DQ>>

headerParts(request) ==
    LET all == allHeaders(request)
    IN  [i \in 1..Len(all) |-> headerPart(all[i][1], all[i][2])]

(* lines 60-64 *)
dataParts(request) ==
    LET body == buildRequestBody(request)
    IN  IF body # << >>
        THEN <<sDataFlag \o <<SP, SQ>> \o escapeSingleQuotes(body) \o <<SQ>> >>
        ELSE << >>

(* lines 73-75: validParams.forEach(param => urlObj.searchParams.set(...)) *)
RECURSIVE SetAllParams(_, _)
SetAllParams(list, rows) ==
    IF rows = << >> THEN list
    ELSE SetAllParams(SearchParamsSet(list, rows[1].key, rows[1].value), Tail(rows))

(* lines 79-82: the manually appended query string; raised when
   encodeURIComponent throws *)
manualQuery(fullUrl, rows) ==
    LET enc == [i \in 1..Len(rows) |->
                  <<encodeURIComponent(rows[i].key), encodeURIComponent(rows[i].value)>>]
    IN  IF \E i \in 1..Len(rows) : enc[i][1].raised \/ enc[i][2].raised
        THEN [raised |-> TRUE, val |-> << >>]
        ELSE [raised |-> FALSE,
              val |-> fullUrl \o (IF Includes(fullUrl, <<"?">>) THEN <<"&">> ELSE <<"?">>)
                      \o Join([i \in 1..Len(rows) |->
                                 enc[i][1].val \o <<"=">> \o enc[i][2].val], <<"&">>)]

(* lines 66-85 *)
finalUrl(request, fullUrl) ==
    IF request.method = sGET /\ Len(request.parameters) > 0
       /\ Len(validRows(request.parameters)) > 0
    THEN LET urlObj == URLParse(fullUrl)
         IN  IF urlObj.ok
             THEN [raised |-> FALSE,
                   val |-> Href(WithSearchParams(urlObj,
                              SetAllParams(SearchParams(urlObj),
                                           validRows(request.parameters))))]
             ELSE manualQuery(fullUrl, validRows(request.parameters))
    ELSE [raised |-> FALSE, val |-> fullUrl]

(* urlPart without the wrapping quotes *)
urlPartBare(url) == escapeQuotes(url)

(* lines 87-88 *)
urlPart(url) == <<DQ>> \o escapeQuotes(url) \o <<DQ>>

(* the whole function: raised = an exception leaves it, curl = the string it
   returns; parts, finalUrl and body are its locals *)
apiRequestToCurl(request, fullUrl) ==
    LET u == finalUrl(request, fullUrl)
        parts == <<sCurl>> \o methodParts(request) \o headerParts(request)
                 \o dataParts(request) \o <<urlPart(u.val)>>
    IN  IF u.raised
        THEN [raised |-> TRUE, curl |-> << >>, parts |-> << >>, finalUrl |-> << >>,
              body |-> << >>]
        ELSE [raised |-> FALSE, curl |-> Join(parts, PartSeparator), parts |-> parts,
              finalUrl |-> u.val, body |-> buildRequestBody(request)]

(* ---------------------------------------------------------------------- *)
(* CurlUtils.curlToApiRequest                                             *)
(* ---------------------------------------------------------------------- *)
(* lines 103-117: the defaults *)
InitialInterpretation == [method |-> sGET, headers |-> << >>, body |-> << >>, fullUrl |-> << >>]

(* parseHeader splitting the argument at its last ':' *)
parseHeaderAtLastColon(headers, token) ==
    LET headerStr == unquoteString(token)
        colons == {i \in 1..Len(headerStr) : headerStr[i] = ":"}
        colonIndex == IF colons = {} THEN 0 - 1
                      ELSE (CHOOSE i \in colons : \A j \in colons : j <= i) - 1
    IN  IF colonIndex > 0
        THEN ObjSet(headers, Trim(Sub(headerStr, 1, colonIndex)),
                    Trim(Sub(headerStr, colonIndex + 2, Len(headerStr))))
        ELSE headers

(* lines 139-145: one -H argument stored into the header map *)
parseHeader(headers, token) ==
    LET headerStr == unquoteString(token)
        colonIndex == IndexOf(headerStr, ":")
    IN  IF colonIndex > 0
        THEN ObjSet(headers, Trim(Sub(headerStr, 1, colonIndex)),
                    Trim(Sub(headerStr, colonIndex + 2, Len(headerStr))))
        ELSE headers

(* lines 128-163: the flag interpreter; i is the 1-based index of the token *)
RECURSIVE InterpretLoop(_, _, _)
InterpretLoop(tokens, i, st) ==
    IF i > Len(tokens) THEN st
    ELSE LET token == tokens[i]
             hasArg == i + 1 <= Len(tokens)
         IN  IF token = sDashX \/ token = sRequestFlag
             THEN InterpretLoop(tokens, i + 2,
                      IF hasArg THEN [st EXCEPT !.method = ToUpper(tokens[i + 1])] ELSE st)
             ELSE IF token = sDashH \/ token = sHeaderFlag
             THEN InterpretLoop(tokens, i + 2,
                      IF hasArg THEN [st EXCEPT !.headers = parseHeader(st.headers, tokens[i + 1])]
                      ELSE st)
             ELSE IF token = sDashD \/ token = sDataFlag \/ token = sDataRawFlag
             THEN InterpretLoop(tokens, i + 2,
                      IF hasArg THEN [st EXCEPT !.body = unquoteString(tokens[i + 1])] ELSE st)
             ELSE IF token = sDataBinaryFlag \/ token = sDataUrlencodeFlag
             THEN InterpretLoop(tokens, i + 2,
                      IF hasArg THEN [st EXCEPT !.body = unquoteString(tokens[i + 1])] ELSE st)
             ELSE IF ~StartsWith(token, <<"-">>) /\ Len(token) > 0
             THEN InterpretLoop(tokens, i + 1, [st EXCEPT !.fullUrl = unquoteString(token)])
             ELSE InterpretLoop(tokens, i + 1, st)

(* interpret with POST as the method before any flag is read *)
interpretDefaultPost(tokens) ==
    InterpretLoop(tokens, IF Len(tokens) > 0 /\ tokens[1] = sCurl THEN 2 ELSE 1,
                  [InitialInterpretation EXCEPT !.method = <<"P", "O", "S", "T">>])

(* interpret that always passes over the first token *)
interpretSkipFirst(tokens) == InterpretLoop(tokens, 2, InitialInterpretation)

(* interpret that forgets everything read when the last token is a recognized flag *)
interpretResetOnMissingArg(tokens) ==
    IF Len(tokens) > 0
       /\ tokens[Len(tokens)] \in {sDashX, sRequestFlag, sDashH, sHeaderFlag, sDashD, sDataFlag,
                                   sDataRawFlag, sDataBinaryFlag, sDataUrlencodeFlag}
    THEN InitialInterpretation
    ELSE InterpretLoop(tokens, IF Len(tokens) > 0 /\ tokens[1] = sCurl THEN 2 ELSE 1,
                       InitialInterpretation)

(* interpret that stops reading at the first '-v' token *)
interpretStopAtUnknown(tokens) ==
    LET stops == {i \in 1..Len(tokens) : tokens[i] = <<"-", "v">>}
        last == IF stops = {} THEN Len(tokens)
                ELSE (CHOOSE i \in stops : \A j \in stops : i <= j) - 1
    IN  InterpretLoop(Sub(tokens, 1, last),
                      IF Len(tokens) > 0 /\ tokens[1] = sCurl THEN 2 ELSE 1,
                      InitialInterpretation)

(* lines 120-163 *)
interpret(tokens) ==
    InterpretLoop(tokens, IF Len(tokens) > 0 /\ tokens[1] = sCurl THEN 2 ELSE 1,
                  InitialInterpretation)

RowsOf(list) == [i \in 1..Len(list) |-> [key |-> list[i][1], value |-> list[i][2]]]

(* lines 165-190: baseUrl, path and parameters from the URL token *)
processUrl(fullUrl, method) ==
    LET urlObj == URLParse(fullUrl)
    IN  IF fullUrl = << >>
        THEN [baseUrl |-> << >>, path |-> << >>, parameters |-> <<EmptyRow>>]
        ELSE IF urlObj.ok
        THEN [baseUrl |-> urlObj.protocol \o <<"/", "/">> \o urlObj.host,
              path |-> urlObj.pathname,
              parameters |-> IF method = sGET /\ Len(SearchParams(urlObj)) > 0
                             THEN Append(RowsOf(SearchParams(urlObj)), EmptyRow)
                             ELSE <<EmptyRow>>]
        ELSE [baseUrl |-> fullUrl, path |-> << >>, parameters |-> <<EmptyRow>>]

(* lines 201-202: headers['Authorization'] || headers['authorization'] *)
authHeader(headers) ==
    IF ObjGet(headers, sAuthorization) # << >> THEN ObjGet(headers, sAuthorization)
    ELSE ObjGet(headers, sAuthorizationLower)

hasBearer(headers) == authHeader(headers) # << >> /\ StartsWith(authHeader(headers), sBearer)

(* lines 192-213: header rows and auth token from the header map *)
processHeaders(headers) ==
    LET auth == authHeader(headers)
        bearer == hasBearer(headers)
    IN  IF Len(headers) > 0
        THEN [authToken |-> IF bearer THEN Sub(auth, 8, Len(auth)) ELSE << >>,
              headers |-> Append(IF bearer
                                 THEN SelectSeq(RowsOf(headers),
                                         LAMBDA h : ToLower(h.key) # sAuthorizationLower)
                                 ELSE RowsOf(headers),
                                 EmptyRow)]
        ELSE [authToken |-> << >>, headers |-> <<EmptyRow>>]

(* line 218: headers['Content-Type'] || headers['content-type'] || '' *)
contentTypeOf(headers) ==
    IF ObjGet(headers, sContentType) # << >> THEN ObjGet(headers, sContentType)
    ELSE ObjGet(headers, sContentTypeLower)

(* processBody with the form-urlencoded rule tried before the JSON and XML rules *)
processBodyFormFirst(body, headers) ==
    LET contentType == contentTypeOf(headers)
    IN  IF body = << >> THEN [bodyType |-> "none", bodyContent |-> << >>]
        ELSE IF Includes(contentType, sFormUrlencoded)
        THEN [bodyType |-> "form-data", bodyContent |-> body]
        ELSE IF Includes(contentType, sApplicationJson) \/ isJsonString(body)
        THEN [bodyType |-> "json", bodyContent |-> tryFormatJson(body)]
        ELSE IF Includes(contentType, sApplicationXml) \/ isXmlString(body)
        THEN [bodyType |-> "xml", bodyContent |-> body]
        ELSE [bodyType |-> "raw", bodyContent |-> body]

(* lines 215-233: body type and content *)
processBody(body, headers) ==
    LET contentType == contentTypeOf(headers)
    IN  IF body = << >> THEN [bodyType |-> "none", bodyContent |-> << >>]
        ELSE IF Includes(contentType, sApplicationJson) \/ isJsonString(body)
        THEN [bodyType |-> "json", bodyContent |-> tryFormatJson(body)]
        ELSE IF Includes(contentType, sApplicationXml) \/ isXmlString(body)
        THEN [bodyType |-> "xml", bodyContent |-> body]
        ELSE IF Includes(contentType, sFormUrlencoded)
        THEN [bodyType |-> "form-data", bodyContent |-> body]
        ELSE [bodyType |-> "raw", bodyContent |-> body]

(* the whole function; normalized, tokens, headers and body are its locals *)
curlToApiRequest(curlCommand) ==
    LET norm == normalized(curlCommand)
        tokens == tokenizeCurlCommand(norm)
        st == interpret(tokens)
        u == processUrl(st.fullUrl, st.method)
        h == processHeaders(st.headers)
        b == processBody(st.body, st.headers)
    IN  [raised |-> FALSE,
         apiRequest |-> [baseUrl |-> u.baseUrl, path |-> u.path, method |-> st.method,
                         authToken |-> h.authToken, parameters |-> u.parameters,
                         headers |-> h.headers, bodyType |-> b.bodyType,
                         bodyContent |-> b.bodyContent],
         fullUrl |-> st.fullUrl,
         normalized |-> norm, tokens |-> tokens, headers |-> st.headers, body |-> st.body]

(* ---------------------------------------------------------------------- *)
(* urlUtils.parseFullUrl                                                  *)
(* ---------------------------------------------------------------------- *)
(* parseFullUrl giving back the trimmed input when parsing fails *)
parseFullUrlTrimmedBase(inputUrl) ==
    LET url == URLParse(Trim(inputUrl))
    IN  IF url.ok
        THEN [raised |-> FALSE,
              baseUrl |-> url.protocol \o <<"/", "/">> \o url.host,
              path |-> (IF url.pathname = <<"/">> THEN << >> ELSE url.pathname) \o url.hash,
              parameters |-> RowsOf(SearchParams(url))]
        ELSE [raised |-> FALSE, baseUrl |-> Trim(inputUrl), path |-> << >>,
              parameters |-> << >>]

(* parseFullUrl that leaves the hash out of the path *)
parseFullUrlWithoutHash(inputUrl) ==
    LET url == URLParse(Trim(inputUrl))
    IN  IF url.ok
        THEN [raised |-> FALSE,
              baseUrl |-> url.protocol \o <<"/", "/">> \o url.host,
              path |-> IF url.pathname = <<"/">> THEN << >> ELSE url.pathname,
              parameters |-> RowsOf(SearchParams(url))]
        ELSE [raised |-> FALSE, baseUrl |-> inputUrl, path |-> << >>, parameters |-> << >>]

parseFullUrl(inputUrl) ==
    LET url == URLParse(Trim(inputUrl))
    IN  IF url.ok
        THEN [raised |-> FALSE,
              baseUrl |-> url.protocol \o <<"/", "/">> \o url.host,
              path |-> (IF url.pathname = <<"/">> THEN << >> ELSE url.pathname) \o url.hash,
              parameters |-> RowsOf(SearchParams(url))]
        ELSE [raised |-> FALSE, baseUrl |-> inputUrl, path |-> << >>, parameters |-> << >>]

(* ---------------------------------------------------------------------- *)
(* Bounds and inputs                                                      *)
(* ---------------------------------------------------------------------- *)
MaxHeaders == 2
MaxParams == 2
MaxRawLen == 4
MaxTokens == 3

BSeq(R, n) == UNION {[1..k -> R] : k \in 0..n}

Row(k, v) == [key |-> k, value |-> v]

HttpMethods == {sGET, <<"P", "O", "S", "T">>, <<"P", "U", "T">>, <<"D", "E", "L", "E", "T", "E">>, <<"P", "A", "T", "C", "H">>, sHEAD, <<"O", "P", "T", "I", "O", "N", "S">>}

BodyTypes == {"json", "xml", "form-data", "raw", "none"}

sJsonA1 == <<"{", DQ, "a", DQ, ":", "1", "}">>
sUrlX == <<"h", "t", "t", "p", "s", ":", "/", "/", "e", ".", "c", "o", "m", "/", "x">>

HeaderKeys == {<< >>, <<"X">>, sAuthorization, sAuthorizationLower, sContentTypeLower}
HeaderValues == {<< >>, <<"1">>, <<"a", DQ, "b">>}
HeaderRows == {Row(k, v) : k \in HeaderKeys, v \in HeaderValues}
AuthTokens == {<< >>, <<SP>>, <<"t", "o", "k">>, <<"t", DQ, "k">>}

ParamKeys == {<< >>, <<"q">>, <<SP>>, <<"r", SP, "s">>}
ParamValues == {<< >>, <<"1">>, <<"a", SP, "b">>}
ParamRows == {Row(k, v) : k \in ParamKeys, v \in ParamValues}
ExportUrls == {<<"h", "t", "t", "p", "s", ":", "/", "/", "e", ".", "c", "o", "m", "/", "p">>, <<"h", "t", "t", "p", "s", ":", "/", "/", "e", ".", "c", "o", "m", "/", "p", "?", "q", "=", "0", "&", "r", "=", "2", "&", "q", "=", "5">>, <<"h", "t", "t", "p", "s", ":", "/", "/", "e", ".", "c", "o", "m">>,
               <<"n", "o", "t", SP, "a", SP, "u", "r", "l">>, <<"e", ".", "c", "o", "m", "?", "a">>}

BodyContents == {<< >>, sJsonA1, <<"{", SP, DQ, "a", DQ, SP, ":", SP, DQ, "x", SP, "y", DQ, SP, "}">>, <<"{", "a", "}">>, <<"<", "a", ">", "1", "<", "/", "a", ">">>, <<"p", "l", "a", "i", "n", SP, "t", "e", "x", "t">>,
                 <<"a", "=", "1", "&", "b", "=", "2">>, <<"i", "t", SQ, "s">>, <<"n", "u", "l", "l">>}

NoRequest == [baseUrl |-> << >>, path |-> << >>, method |-> sGET, authToken |-> << >>,
              parameters |-> <<EmptyRow>>, headers |-> <<EmptyRow>>,
              bodyType |-> "none", bodyContent |-> << >>]

(* requests that vary the headers and the auth token *)
HeaderRequests ==
    {[NoRequest EXCEPT !.method = m, !.headers = h, !.authToken = a,
                       !.bodyType = "json", !.bodyContent = sJsonA1] :
       m \in {sGET, <<"P", "O", "S", "T">>}, h \in BSeq(HeaderRows, MaxHeaders), a \in AuthTokens}

(* requests that vary the method and the parameters *)
ParamRequests ==
    {[NoRequest EXCEPT !.method = m, !.parameters = p] :
       m \in HttpMethods, p \in BSeq(ParamRows, MaxParams)}

(* GET requests with a lone surrogate in a parameter *)
SurrogateRequests ==
    {[NoRequest EXCEPT !.parameters = p] :
       p \in {<<Row(<<SURR>>, <<"1">>)>>, <<Row(<<"q">>, <<"a", SURR>>), EmptyRow>>}}

(* requests that vary the method and the body *)
BodyRequests ==
    {[NoRequest EXCEPT !.method = m, !.bodyType = t, !.bodyContent = c, !.parameters = p] :
       m \in HttpMethods, t \in BodyTypes, c \in BodyContents,
       p \in {<<EmptyRow>>, <<Row(<<"q">>, <<"1">>)>>}}

(* command strings: every string over RawAlphabet up to MaxRawLen, ... *)
RawAlphabet == {"a", SP, DQ, SQ, NL, BS}
RawStrings == BSeq(RawAlphabet, MaxRawLen)

(* ... every sequence of up to MaxTokens words of Vocabulary joined by spaces, ... *)
Vocabulary == {sCurl, sDashX, sDashH, sDashD, sDataBinaryFlag, <<"-", "v">>, <<"p", "o", "s", "t">>,
               <<DQ, "K", ":", SP, "v", DQ>>, <<SQ, "b", SQ>>, <<"u">>}
WordCommands == {Join(w, <<SP>>) : w \in BSeq(Vocabulary, MaxTokens)}

(* ... and curl [-X m] [-H header] [flag body] [url] *)
MethodArgs == {<< >>, <<sDashX, <<"P", "O", "S", "T">>>>}
HeaderArgs == {<< >>,
               <<sDashH, <<DQ, "C", "o", "n", "t", "e", "n", "t", "-", "T", "y", "p", "e", ":", SP, "a", "p", "p", "l", "i", "c", "a", "t", "i", "o", "n", "/", "j", "s", "o", "n", DQ>>>>,
               <<sDashH, <<DQ, "c", "o", "n", "t", "e", "n", "t", "-", "t", "y", "p", "e", ":", SP, "a", "p", "p", "l", "i", "c", "a", "t", "i", "o", "n", "/", "x", "m", "l", DQ>>>>,
               <<sDashH, <<DQ, "C", "o", "n", "t", "e", "n", "t", "-", "T", "y", "p", "e", ":", SP, "a", "p", "p", "l", "i", "c", "a", "t", "i", "o", "n", "/", "x", "-", "w", "w", "w", "-", "f", "o", "r", "m", "-", "u", "r", "l", "e", "n", "c", "o", "d", "e", "d", DQ>>>>,
               <<sDashH, <<DQ, "C", "o", "n", "t", "e", "n", "t", "-", "T", "y", "p", "e", ":", SP, "t", "e", "x", "t", "/", "p", "l", "a", "i", "n", DQ>>>>,
               <<sHeaderFlag, <<SQ, "A", "c", "c", "e", "p", "t", ":", SP, "*", "/", "*", SQ>>>>}
BodyArgs == {<<SQ, SQ>>, <<SQ, "{", DQ, "a", DQ, ":", "1", "}", SQ>>, <<SQ, "{", DQ, "a", DQ, ":", SP, SP, "[", "1", ",", SP, DQ, "x", DQ, "]", "}", SQ>>, <<SQ, "{", "a", "}", SQ>>, <<SQ, "<", "a", ">", "1", "<", "/", "a", ">", SQ>>,
             <<SQ, "p", "l", "a", "i", "n", SP, "t", "e", "x", "t", SQ>>, <<SQ, "a", "=", "1", "&", "b", "=", "2", SQ>>, <<"n", "u", "l", "l">>, <<DQ, "<", "a", DQ>>}
DataArgs == {<< >>} \cup {<<f, b>> : f \in {sDashD, sDataRawFlag}, b \in BodyArgs}
UrlArgs == {<< >>, <<<<"h", "t", "t", "p", "s", ":", "/", "/", "e", ".", "c", "o", "m", "/", "p", "?", "q", "=", "1">>>>, <<<<DQ, "n", "o", "t", SP, "a", SP, "u", "r", "l", DQ>>>>, <<<<"e", ".", "c", "o", "m">>>>,
            <<<<DQ, "h", "t", "t", "p", "s", ":", "/", "/", "a", SP, "b", "/", "p", DQ>>>>}
FlagCommands ==
    {Join(<<sCurl>> \o m \o h \o d \o u, PartSeparator) :
       m \in MethodArgs, h \in HeaderArgs, d \in DataArgs, u \in UrlArgs}

(* ... and curl followed by two of: a recognized flag with an argument, a
   recognized flag alone, an unrecognized flag, a URL token *)
RecognizedFlags == {sDashX, sRequestFlag, sDashH, sHeaderFlag, sDashD, sDataFlag, sDataRawFlag,
                    sDataBinaryFlag, sDataUrlencodeFlag}
MethodValues == {<<"p", "u", "t">>, <<DQ, "P", "O", "S", "T", DQ>>}
HeaderStrings == {<<DQ, "K", ":", SP, "v", DQ>>, <<SQ, "K", ":", SP, "a", ":", "b", SQ>>, <<DQ, "A", "u", "t", "h", "o", "r", "i", "z", "a", "t", "i", "o", "n", ":", SP, "B", "e", "a", "r", "e", "r", SP, "t", DQ>>,
                  <<DQ, SP, ":", SP, "w", DQ>>,
                  <<SQ, "a", "u", "t", "h", "o", "r", "i", "z", "a", "t", "i", "o", "n", ":", SP, "B", "a", "s", "i", "c", SP, "x", SQ>>}
BodyStrings == {<<SQ, "b", SQ>>, <<DQ, "c", SP, SP, "d", DQ>>}
FlagItems ==
    {<<f, a>> : f \in {sDashX, sRequestFlag}, a \in MethodValues}
    \cup {<<f, a>> : f \in {sDashH, sHeaderFlag}, a \in HeaderStrings}
    \cup {<<f, a>> : f \in {sDashD, sDataFlag, sDataRawFlag, sDataBinaryFlag, sDataUrlencodeFlag},
                     a \in BodyStrings}
    \cup {<<f>> : f \in RecognizedFlags}
    \cup {<<<<"-", "v">>>>, <<<<"u">>>>}
ItemCommands ==
    {Join(<<sCurl>> \o a \o b, <<SP>>) : a \in FlagItems, b \in FlagItems \cup {<< >>}}

(* URL strings given to parseFullUrl *)
SplitUrls == {<<"h", "t", "t", "p", "s", ":", "/", "/", "e", ".", "c", "o", "m", "/", "p", "?", "q", "=", "1", "&", "q", "=", "2", "#", "h">>, <<"h", "t", "t", "p", "s", ":", "/", "/", "e", ".", "c", "o", "m", "/">>, <<"h", "t", "t", "p", ":", "/", "/", "E", ".", "c", "o", "m">>,
              <<SP, "h", "t", "t", "p", "s", ":", "/", "/", "e", ".", "c", "o", "m", "/", "a", SP, "b", "?", "x", "=", "a", "+", "b", SP>>, <<"n", "o", "t", SP, "a", SP, "u", "r", "l">>, <<"e", ".", "c", "o", "m", "/", "p", "?", "q", "=", "1">>, <<"/", "p">>,
              <<"h", "t", "t", "p", ":", "/", "/">>, <<"h", "t", "t", "p", "s", ":", "/", "/", "a", SP, "b", "/", "p">>, <<SP, "x", SP>>}

Input(op, request, text) == [op |-> op, request |-> request, text |-> text]

NoExport == [raised |-> FALSE, curl |-> << >>, parts |-> << >>, finalUrl |-> << >>,
             body |-> << >>]
NoImport == [raised |-> FALSE, apiRequest |-> NoRequest, fullUrl |-> << >>,
             normalized |-> << >>, tokens |-> << >>, headers |-> << >>, body |-> << >>]
NoSplit == [raised |-> FALSE, baseUrl |-> << >>, path |-> << >>, parameters |-> << >>]
NoOut == [exp |-> NoExport, imp |-> NoImport, split |-> NoSplit]

(* ---------------------------------------------------------------------- *)
(* The components after construction                                      *)
(* ---------------------------------------------------------------------- *)
(* requestSlice.createInitialState (row ids are opaque and left out) *)
createInitialState == NoRequest

(* useApiRequest: useState(null), useState(false), and no call made; a call is
   at pc idle, fetching (await fetch), reading (await json()/text()), aborted
   (controller.abort() done, the rejection not yet handled) or done *)
MaxCalls == 2
Calls == 1..MaxCalls
NullResponse == [status |-> "null", error |-> "", call |-> 0]
NotCalled == [pc |-> "idle", timer |-> "off", error |-> ""]
useApiRequest == [response |-> NullResponse, loading |-> FALSE,
                  calls |-> [c \in Calls |-> NotCalled]]

(* RequestStorageService.getHistory on an empty storage *)
emptyHistory == [requests |-> << >>, favorites |-> << >>]

(* a BatchCommand of no commands: executed = [] *)
NoError == <<"none", 0>>
NoBatch == [commands |-> << >>, executed |-> << >>, log |-> << >>, error |-> NoError,
            op |-> "none", calls |-> 0]

(* no call of the translator *)
NoCurl == pc = "idle" /\ inp = Input("idle", NoRequest, << >>) /\ out = NoOut

(* ---------------------------------------------------------------------- *)
(* The state machine: one call of toCurl, fromCurl or split per behaviour, *)
(* and the exported command fed back to fromCurl.                          *)
(* ---------------------------------------------------------------------- *)
Init ==
    /\ pc = "ready"
    /\ out = NoOut
    /\ store = createInitialState /\ hook = useApiRequest
    /\ history = emptyHistory /\ batch = NoBatch
    /\ \/ \E r \in HeaderRequests : inp = Input("export", r, sUrlX)
       \/ \E r \in ParamRequests :
            \E u \in (IF r.method = sGET THEN ExportUrls ELSE {sUrlX}) :
               inp = Input("export", r, u)
       \/ \E r \in BodyRequests : inp = Input("export", r, sUrlX)
       \/ \E r \in SurrogateRequests : inp = Input("export", r, <<"n", "o", "t", SP, "a", SP, "u", "r", "l">>)
       \/ \E c \in RawStrings \cup WordCommands \cup FlagCommands \cup ItemCommands :
            inp = Input("import", NoRequest, c)
       \/ \E u \in SplitUrls \cup RawStrings : inp = Input("split", NoRequest, u)

(* toCurl(request, fullUrl) *)
Export ==
    /\ pc = "ready" /\ inp.op = "export"
    /\ out' = [out EXCEPT !.exp = apiRequestToCurl(inp.request, inp.text)]
    /\ pc' = "exported"
    /\ UNCHANGED <<inp, store, hook, history, batch>>

(* fromCurl(command) *)
Import ==
    /\ pc = "ready" /\ inp.op = "import"
    /\ out' = [out EXCEPT !.imp = curlToApiRequest(inp.text)]
    /\ pc' = "imported"
    /\ UNCHANGED <<inp, store, hook, history, batch>>

(* fromCurl(toCurl(request, fullUrl)) *)
Reimport ==
    /\ pc = "exported" /\ ~out.exp.raised
    /\ out' = [out EXCEPT !.imp = curlToApiRequest(out.exp.curl)]
    /\ pc' = "reimported"
    /\ UNCHANGED <<inp, store, hook, history, batch>>

(* split(url) *)
Split ==
    /\ pc = "ready" /\ inp.op = "split"
    /\ out' = [out EXCEPT !.split = parseFullUrl(inp.text)]
    /\ pc' = "split"
    /\ UNCHANGED <<inp, store, hook, history, batch>>

Next == Export \/ Import \/ Reimport \/ Split

Spec == Init /\ [][Next]_vars

(* ---------------------------------------------------------------------- *)
(* The request slice of the store (requestSlice.ts) and the Import cURL    *)
(* button (ActionButtons.handleImportCurl)                                 *)
(* ---------------------------------------------------------------------- *)
setBaseUrl(state, payload) == [state EXCEPT !.baseUrl = payload]
setPath(state, payload) == [state EXCEPT !.path = payload]
setMethod(state, payload) == [state EXCEPT !.method = payload]
setAuthToken(state, payload) == [state EXCEPT !.authToken = payload]
setBodyType(state, payload) == [state EXCEPT !.bodyType = payload]
setBodyContent(state, payload) == [state EXCEPT !.bodyContent = payload]

(* if (rows[index]) rows[index][field] = value *)
updateRow(rows, index, field, value) ==
    IF index + 1 \in 1..Len(rows)
    THEN [rows EXCEPT ![index + 1] = IF field = "key" THEN [@ EXCEPT !.key = value]
                                     ELSE [@ EXCEPT !.value = value]]
    ELSE rows

(* rows.splice(index, 1), index >= 0 *)
splice(rows, index) ==
    IF index < Len(rows) THEN Sub(rows, 1, index) \o Sub(rows, index + 2, Len(rows)) ELSE rows

updateParameter(state, index, field, value) ==
    [state EXCEPT !.parameters = updateRow(@, index, field, value)]
addParameter(state, payload) ==
    [state EXCEPT !.parameters = Append(@, Row(payload.key, payload.value))]
removeParameter(state, payload) ==
    IF Len(state.parameters) > 1 THEN [state EXCEPT !.parameters = splice(@, payload)] ELSE state
replaceParameters(state, payload) ==
    [state EXCEPT !.parameters = [i \in 1..Len(payload) |-> Row(payload[i].key, payload[i].value)]]

updateHeader(state, index, field, value) ==
    [state EXCEPT !.headers = updateRow(@, index, field, value)]
addHeader(state, payload) ==
    [state EXCEPT !.headers = Append(@, Row(payload.key, payload.value))]
removeHeader(state, payload) ==
    IF Len(state.headers) > 1 THEN [state EXCEPT !.headers = splice(@, payload)] ELSE state
replaceHeaders(state, payload) ==
    [state EXCEPT !.headers = [i \in 1..Len(payload) |-> Row(payload[i].key, payload[i].value)]]

(* return { ...action.payload } *)
loadRequest(state, payload) == payload

resetRequest(state) == createInitialState

(* an optional field of a payload *)
Undefined == [defined |-> FALSE, val |-> << >>]
Some(v) == [defined |-> TRUE, val |-> v]

(* an array, the empty one too, is truthy *)
setUrlComponents(state, payload) ==
    LET s1 == IF payload.baseUrl.defined THEN [state EXCEPT !.baseUrl = payload.baseUrl.val]
              ELSE state
        s2 == IF payload.path.defined THEN [s1 EXCEPT !.path = payload.path.val] ELSE s1
    IN  IF payload.parameters.defined
        THEN [s2 EXCEPT !.parameters = [i \in 1..Len(payload.parameters.val) |->
                                          Row(payload.parameters.val[i].key,
                                              payload.parameters.val[i].value)]]
        ELSE s2

(* lines 99-107: apiRequest.headers.forEach, from index on *)
RECURSIVE importHeaders(_, _, _)
importHeaders(state, headers, index) ==
    IF index >= Len(headers) THEN state
    ELSE importHeaders(
           IF index = 0
           THEN updateHeader(updateHeader(state, 0, "key", headers[1].key),
                             0, "value", headers[1].value)
           ELSE addHeader(state, headers[index + 1]),
           headers, index + 1)

(* lines 110-117: apiRequest.parameters.forEach, from index on *)
RECURSIVE importParameters(_, _, _)
importParameters(state, parameters, index) ==
    IF index >= Len(parameters) THEN state
    ELSE importParameters(
           IF index = 0
           THEN updateParameter(updateParameter(state, 0, "key", parameters[1].key),
                                0, "value", parameters[1].value)
           ELSE addParameter(state, parameters[index + 1]),
           parameters, index + 1)

(* lines 120-130: the parameters of parseFullUrl, from index on; length is
   apiRequest.parameters.length *)
RECURSIVE importUrlParameters(_, _, _, _)
importUrlParameters(state, parameters, index, length) ==
    IF index >= Len(parameters) THEN state
    ELSE importUrlParameters(
           IF index = 0 /\ length = 0
           THEN updateParameter(updateParameter(state, 0, "key", parameters[1].key),
                                0, "value", parameters[1].value)
           ELSE addParameter(state, parameters[index + 1]),
           parameters, index + 1, length)

(* lines 92-130: the dispatches for the parsed request and the parts of its URL *)
dispatchImported(state, apiRequest, url) ==
    importUrlParameters(
      importParameters(
        importHeaders(
          setAuthToken(setBodyContent(setBodyType(setMethod(setPath(
            setBaseUrl(state, url.baseUrl), url.path), apiRequest.method),
            apiRequest.bodyType), apiRequest.bodyContent), apiRequest.authToken),
          apiRequest.headers, 0),
        apiRequest.parameters, 0),
      url.parameters, 0, Len(apiRequest.parameters))

(* lines 87-91 and 133-136: nothing is dispatched when the converter throws *)
importParsed(state, parsed) ==
    IF parsed.raised THEN state
    ELSE dispatchImported(state, parsed.apiRequest, parseFullUrl(parsed.fullUrl))

(* handleImportCurl with curlCommand the answer to the prompt (a cancelled
   prompt is the blank command): the store after it *)
handleImportCurl(state, curlCommand) ==
    IF Trim(curlCommand) = << >> THEN state
    ELSE importParsed(state, curlToApiRequest(curlCommand))

(* payloads of the store's actions *)
MaxRows == 2
StoreStrings == {<< >>, <<"q">>}
StoreRows == {Row(k, v) : k \in StoreStrings, v \in StoreStrings}
StoreLists == BSeq(StoreRows, MaxRows)
StoreBaseUrl == <<"h", "t", "t", "p", "s", ":", "/", "/", "e", ".", "c", "o", "m">>
StoreRequests ==
    {[NoRequest EXCEPT !.parameters = p, !.headers = h] :
       p \in {<< >>, <<Row(<<"q">>, <<"q">>), EmptyRow>>},
       h \in {<< >>, <<EmptyRow>>}}
UrlComponents ==
    {[baseUrl |-> b, path |-> Undefined, parameters |-> ps] :
       b \in {Undefined, Some(StoreBaseUrl)},
       ps \in {Undefined, Some(<< >>), Some(<<Row(<<"q">>, <<"q">>)>>)}}
ImportCommands == {<<SP, SP>>,
                   <<"c", "u", "r", "l", SP, "h", "t", "t", "p", "s", ":", "/", "/", "e", ".", "c", "o", "m", "/", "p", "?", "q", "=", "q">>,
                   <<"c", "u", "r", "l", SP, "-", "X", SP, "P", "O", "S", "T", SP, "-", "H", SP, DQ, "q", ":", SP, "q", DQ, SP, "-", "d", SP, SQ, "b", SQ, SP, "h", "t", "t", "p", "s", ":", "/", "/", "e", ".", "c", "o", "m", "/", "p">>}

(* the editor's bound: fields and rows are edited and requests imported only
   while both lists have at most MaxRows rows *)
Editable == Len(store.parameters) <= MaxRows /\ Len(store.headers) <= MaxRows

StoreInit ==
    /\ NoCurl
    /\ store = createInitialState
    /\ hook = useApiRequest /\ history = emptyHistory /\ batch = NoBatch

(* dispatch of an action by the editor: the store after it *)
Dispatch(state) ==
    /\ store' = state
    /\ pc' = "idle" /\ inp' = Input("idle", NoRequest, << >>)
    /\ UNCHANGED <<out, hook, history, batch>>

(* the actions on the rows and on the whole request; the setters of the six
   plain fields change no row and are dispatched here by the Import cURL button *)
UpdateParameter ==
    /\ Editable
    /\ \E i \in 0..MaxRows, f \in {"key", "value"}, v \in StoreStrings :
         Dispatch(updateParameter(store, i, f, v))
AddParameter ==
    /\ Len(store.parameters) < MaxRows
    /\ \E r \in StoreRows : Dispatch(addParameter(store, r))
RemoveParameter == Editable /\ \E i \in 0..MaxRows : Dispatch(removeParameter(store, i))
ReplaceParameters == \E rows \in StoreLists : Dispatch(replaceParameters(store, rows))
UpdateHeader ==
    /\ Editable
    /\ \E i \in 0..MaxRows, f \in {"key", "value"}, v \in StoreStrings :
         Dispatch(updateHeader(store, i, f, v))
AddHeader ==
    /\ Len(store.headers) < MaxRows
    /\ \E r \in StoreRows : Dispatch(addHeader(store, r))
RemoveHeader == Editable /\ \E i \in 0..MaxRows : Dispatch(removeHeader(store, i))
ReplaceHeaders == \E rows \in StoreLists : Dispatch(replaceHeaders(store, rows))
LoadRequest == \E r \in StoreRequests : Dispatch(loadRequest(store, r))
ResetRequest == Dispatch(resetRequest(store))
SetUrlComponents == \E u \in UrlComponents : Dispatch(setUrlComponents(store, u))

(* the Import cURL button; inp keeps the command *)
HandleImportCurl ==
    /\ Editable
    /\ \E c \in ImportCommands :
         /\ store' = handleImportCurl(store, c)
         /\ inp' = Input("importCurl", NoRequest, c)
         /\ pc' = "importedCurl"
    /\ UNCHANGED <<out, hook, history, batch>>

StoreNext ==
    \/ UpdateParameter \/ AddParameter \/ RemoveParameter \/ ReplaceParameters
    \/ UpdateHeader \/ AddHeader \/ RemoveHeader \/ ReplaceHeaders
    \/ LoadRequest \/ ResetRequest \/ SetUrlComponents
    \/ HandleImportCurl

StoreSpec == StoreInit /\ [][StoreNext]_vars

(* ---------------------------------------------------------------------- *)
(* The useApiRequest hook (hooks/useApiRequest.ts): the sendRequest calls  *)
(* of one hook.  A call runs up to its next await in one step; the steps   *)
(* of different calls interleave.                                          *)
(* ---------------------------------------------------------------------- *)
sEnterUrl == "Please enter a valid URL"
sTimedOut == "Request timed out"
(* error.message of a rejected fetch or of a response body that cannot be read *)
sFailed == "Failed to fetch"

HookUrls == {<< >>, <<SP>>, sUrlX}

(* the call has started and not settled *)
InFlight(c) == hook.calls[c].pc \in {"fetching", "reading", "aborted"}

HookInit ==
    /\ NoCurl
    /\ hook = useApiRequest
    /\ store = createInitialState /\ history = emptyHistory /\ batch = NoBatch

HookStep(h) == hook' = h /\ UNCHANGED <<pc, inp, out, store, history, batch>>

(* lines 52-87: the URL check, setLoading(true), setResponse(null), the timer,
   and fetch called *)
SendRequest(c) ==
    /\ hook.calls[c].pc = "idle"
    /\ \E fullUrl \in HookUrls :
         HookStep(IF Trim(fullUrl) = << >>
                  THEN [hook EXCEPT !.calls[c] = [pc |-> "done", timer |-> "off",
                                                  error |-> sEnterUrl]]
                  ELSE [hook EXCEPT !.loading = TRUE, !.response = NullResponse,
                                    !.calls[c] = [pc |-> "fetching", timer |-> "armed",
                                                  error |-> ""]])

(* lines 84-99: the server's status line and headers arrive, fetch resolves;
   clearTimeout, and json() or text() is awaited *)
FetchResolves(c) ==
    /\ hook.calls[c].pc = "fetching"
    /\ HookStep([hook EXCEPT !.calls[c] = [pc |-> "reading", timer |-> "off", error |-> ""]])

(* lines 117-132: catch and finally, for the error message and the call *)
caught(h, c, message) ==
    [h EXCEPT !.response = [status |-> "0", error |-> message, call |-> c],
              !.loading = FALSE,
              !.calls[c] = [@ EXCEPT !.pc = "done", !.error = message]]

(* fetch rejects (no connection, a refused request): lines 117-132; the timer
   is not cleared *)
FetchRejects(c) ==
    /\ hook.calls[c].pc = "fetching"
    /\ HookStep(caught(hook, c, sFailed))

(* line 82: the timer's callback, controller.abort(); it makes a pending fetch
   reject with an AbortError and changes nothing else *)
TimerFires(c) ==
    /\ hook.calls[c].timer = "armed"
    /\ HookStep([hook EXCEPT !.calls[c] = [@ EXCEPT !.timer = "fired",
                                             !.pc = IF @ = "fetching" THEN "aborted" ELSE @]])

(* the aborted fetch rejects: lines 117-132 with error.name AbortError *)
AbortRejects(c) ==
    /\ hook.calls[c].pc = "aborted"
    /\ HookStep(caught(hook, c, sTimedOut))

(* the body has arrived and is parsed: lines 101-115 and 130-132 *)
BodyArrives(c) ==
    /\ hook.calls[c].pc = "reading"
    /\ HookStep([hook EXCEPT !.response = [status |-> "200", error |-> "", call |-> c],
                             !.loading = FALSE,
                             !.calls[c] = [@ EXCEPT !.pc = "done"]])

(* json() or text() rejects (a body that is no JSON, a broken connection):
   lines 117-132 *)
BodyFails(c) ==
    /\ hook.calls[c].pc = "reading"
    /\ HookStep(caught(hook, c, sFailed))

(* lines 135-137 *)
ClearResponse == HookStep([hook EXCEPT !.response = NullResponse])

HookNext ==
    \/ \E c \in Calls : SendRequest(c)
    \/ \E c \in Calls : FetchResolves(c)
    \/ \E c \in Calls : FetchRejects(c)
    \/ \E c \in Calls : TimerFires(c)
    \/ \E c \in Calls : AbortRejects(c)
    \/ \E c \in Calls : BodyArrives(c)
    \/ \E c \in Calls : BodyFails(c)
    \/ ClearResponse

HookSpec == HookInit /\ [][HookNext]_vars

(* the event loop runs an armed timer's callback and the handlers of a rejected
   promise; nothing makes the server answer, nor the user send or clear *)
HookLive ==
    /\ HookSpec
    /\ \A c \in Calls : WF_vars(TimerFires(c)) /\ WF_vars(AbortRejects(c))

(* ---------------------------------------------------------------------- *)
(* The request history of RequestStorageService (unnamed/part_003): the    *)
(* stored history with, of a saved request, its id and its isFavorite      *)
(* ---------------------------------------------------------------------- *)
(* the code keeps 100 requests (line 181); the model keeps HistoryLimit *)
HistoryLimit == 2
RequestIds == {"a", "b", "c"}
SavedRequests == [id : RequestIds, isFavorite : BOOLEAN]

saveRequest(h, savedRequest) ==
    LET requests == <<savedRequest>> \o SelectSeq(h.requests, LAMBDA r : r.id # savedRequest.id)
    IN  [h EXCEPT !.requests = IF Len(requests) > HistoryLimit
                               THEN Sub(requests, 1, HistoryLimit)
                               ELSE requests]

toggleFavorite(h, requestId) ==
    IF \E i \in 1..Len(h.requests) : h.requests[i].id = requestId
    THEN LET i == CHOOSE j \in 1..Len(h.requests) :
                    /\ h.requests[j].id = requestId
                    /\ \A k \in 1..(j - 1) : h.requests[k].id # requestId
             isFavorite == ~h.requests[i].isFavorite
         IN  [requests |-> [h.requests EXCEPT ![i].isFavorite = isFavorite],
              favorites |->
                 IF isFavorite /\ ~\E k \in 1..Len(h.favorites) : h.favorites[k] = requestId
                 THEN Append(h.favorites, requestId)
                 ELSE IF ~isFavorite
                 THEN SelectSeq(h.favorites, LAMBDA id : id # requestId)
                 ELSE h.favorites]
    ELSE h

deleteRequest(h, requestId) ==
    [requests |-> SelectSeq(h.requests, LAMBDA r : r.id # requestId),
     favorites |-> SelectSeq(h.favorites, LAMBDA id : id # requestId)]

HistoryInit ==
    /\ NoCurl
    /\ history = emptyHistory
    /\ store = createInitialState /\ hook = useApiRequest /\ batch = NoBatch

SaveRequest ==
    /\ \E r \in SavedRequests : history' = saveRequest(history, r)
    /\ UNCHANGED <<pc, inp, out, store, hook, batch>>

ToggleFavorite ==
    /\ \E id \in RequestIds : history' = toggleFavorite(history, id)
    /\ UNCHANGED <<pc, inp, out, store, hook, batch>>

DeleteRequest ==
    /\ \E id \in RequestIds : history' = deleteRequest(history, id)
    /\ UNCHANGED <<pc, inp, out, store, hook, batch>>

HistoryNext == SaveRequest \/ ToggleFavorite \/ DeleteRequest

HistorySpec == HistoryInit /\ [][HistoryNext]_vars

(* ---------------------------------------------------------------------- *)
(* BatchCommand (services/commands/RequestCommands.ts).  A command of the  *)
(* batch is what its methods do: execute returns or throws, canUndo() is   *)
(* true or not (a command without canUndo counts as false), undo returns   *)
(* or throws.  executed holds positions of the list; log is the calls made *)
(* on the commands by the last call on the batch, error what that call     *)
(* threw: <<"execute", k>> is the error of command k's execute,            *)
(* <<"undo", k>> the error of its undo.                                    *)
(* ---------------------------------------------------------------------- *)
MaxCommands == 3
MaxBatchCalls == 2
CommandKinds == [executes : BOOLEAN, canUndo : BOOLEAN, undoes : BOOLEAN]

(* lines 152-161: undo from executed[i] down *)
RECURSIVE undoFrom(_, _)
undoFrom(b, i) ==
    IF i < 1 THEN [b EXCEPT !.executed = << >>]
    ELSE LET k == b.executed[i]
         IN  IF b.commands[k].canUndo
             THEN IF b.commands[k].undoes
                  THEN undoFrom([b EXCEPT !.log = Append(@, <<"undo", k>>)], i - 1)
                  ELSE [b EXCEPT !.log = Append(@, <<"undo", k>>), !.error = <<"undo", k>>]
             ELSE undoFrom(b, i - 1)

undo(b) == undoFrom(b, Len(b.executed))

(* lines 139-150: execute from command k on *)
RECURSIVE executeFrom(_, _)
executeFrom(b, k) ==
    IF k > Len(b.commands) THEN b
    ELSE IF b.commands[k].executes
    THEN executeFrom([b EXCEPT !.executed = Append(@, k),
                               !.log = Append(@, <<"execute", k>>)], k + 1)
    ELSE LET rolled == undo([b EXCEPT !.log = Append(@, <<"execute", k>>)])
         IN  IF rolled.error = NoError THEN [rolled EXCEPT !.error = <<"execute", k>>]
             ELSE rolled

execute(b) == executeFrom(b, 1)

(* lines 163-165 *)
canUndo(b) == Len(b.executed) > 0

BatchInit ==
    /\ NoCurl
    /\ \E commands \in BSeq(CommandKinds, MaxCommands) :
         batch = [NoBatch EXCEPT !.commands = commands]
    /\ store = createInitialState /\ hook = useApiRequest /\ history = emptyHistory

(* a call on the batch: its log and error start empty *)
Called(b, op) == [b EXCEPT !.log = << >>, !.error = NoError, !.op = op, !.calls = @ + 1]

BatchExecute ==
    /\ batch.calls < MaxBatchCalls
    /\ batch' = execute(Called(batch, "execute"))
    /\ UNCHANGED <<pc, inp, out, store, hook, history>>

BatchUndo ==
    /\ batch.calls < MaxBatchCalls
    /\ batch' = undo(Called(batch, "undo"))
    /\ UNCHANGED <<pc, inp, out, store, hook, history>>

BatchNext == BatchExecute \/ BatchUndo

BatchSpec == BatchInit /\ [][BatchNext]_vars

(* ---------------------------------------------------------------------- *)
(* Claims                                                                 *)
(* ---------------------------------------------------------------------- *)
Imported == pc \in {"imported", "reimported"}

(* the open quote character after each character of s ("" outside quotes): a
   quote opens a region only when none is open and closes only its own kind *)
QuoteAfter(s) ==
    Fold(LAMBDA acc, c :
            LET q == IF acc = << >> THEN "" ELSE acc[Len(acc)]
            IN  Append(acc, IF q = "" THEN (IF c \in {DQ, SQ} THEN c ELSE "")
                            ELSE IF c = q THEN "" ELSE q),
         s, 1, Len(s), << >>)

(* the positions of the spaces of s that lie outside quotes *)
Delimiters(s) ==
    LET q == QuoteAfter(s)
    IN  {i \in 1..Len(s) : s[i] = SP /\ (i = 1 \/ q[i - 1] = "")}

(* the non-empty maximal segments of s between its delimiters, in order *)
Segments(s) ==
    LET D == Delimiters(s)
        ends == {e \in D \cup {Len(s) + 1} : e - 1 >= 1 /\ (e - 1) \notin D}
        nth(n) == CHOOSE e \in ends : Cardinality({x \in ends : x <= e}) = n
        startOf(e) == IF \E d \in D : d < e
                      THEN (CHOOSE d \in D : d < e /\ \A x \in D : x < e => x <= d) + 1
                      ELSE 1
    IN  [n \in 1..Cardinality(ends) |-> Sub(s, startOf(nth(n)), nth(n) - 1)]

(* C7: the tokens of the whitespace-normalized command are its non-empty maximal
   segments between the spaces outside quotes (quote characters retained, a quote
   opened only when none is open and closed only by the same character); no token
   is empty; an unterminated quote runs its token to the end of the input; joining
   the tokens with single spaces gives back the normalized command. *)
C7_TokensAreSegments ==
    Imported =>
      LET cmd == out.imp.normalized
          toks == out.imp.tokens
          q == QuoteAfter(cmd)
      IN  /\ toks = Segments(cmd)
          /\ \A i \in 1..Len(toks) : toks[i] # << >>
          /\ (cmd # << >> /\ q[Len(cmd)] # "") =>
                /\ toks # << >>
                /\ EndsWith(cmd, toks[Len(toks)])
                /\ q[Len(cmd)] \in CharsOf(toks[Len(toks)])
          /\ Join(toks, <<SP>>) = cmd

(* C7 witness: a command with an unterminated quote whose last token holds a space,
   after another token *)
C7_Witness ==
    /\ Imported
    /\ Len(out.imp.tokens) >= 2
    /\ out.imp.normalized # << >>
    /\ QuoteAfter(out.imp.normalized)[Len(out.imp.normalized)] # ""
    /\ SP \in CharsOf(out.imp.tokens[Len(out.imp.tokens)])

Exported == pc \in {"exported", "reimported"} /\ ~out.exp.raised

(* the parts of a toCurl output: its segments between the separators " \\\n  " *)
OutputParts(c) ==
    LET P == {i \in 1..(Len(c) - Len(PartSeparator) + 1) :
                Sub(c, i, i + Len(PartSeparator) - 1) = PartSeparator}
        starts == {1} \cup {i + Len(PartSeparator) : i \in P}
        nth(n) == CHOOSE b \in starts : Cardinality({x \in starts : x <= b}) = n
        endOf(b) == IF \E i \in P : i >= b
                    THEN (CHOOSE i \in P : i >= b /\ \A j \in P : j >= b => i <= j) - 1
                    ELSE Len(c)
    IN  [n \in 1..Cardinality(starts) |-> Sub(c, nth(n), endOf(nth(n)))]

PartsWithPrefix(ps, prefix) == {i \in 1..Len(ps) : StartsWith(ps[i], prefix)}

NoRuns(str) == \A i \in 1..(Len(str) - 1) : ~(IsWs(str[i]) /\ IsWs(str[i + 1]))

(* no single quote, no backslash, no leading or trailing whitespace, no run of
   two or more whitespace characters *)
PlainString(str) ==
    /\ SQ \notin CharsOf(str) /\ BS \notin CharsOf(str)
    /\ Trim(str) = str /\ NoRuns(str)

(* the requests C1 speaks of *)
C1_Request(r) ==
    /\ r.method = <<"P", "O", "S", "T">>
    /\ r.bodyType = "json" /\ JsonParse(r.bodyContent).ok
    /\ Trim(r.authToken) # << >> /\ PlainString(r.authToken)
    /\ \A i \in 1..Len(r.headers) :
         /\ Trim(r.headers[i].key) # << >> /\ Trim(r.headers[i].value) # << >>
         /\ ":" \notin CharsOf(r.headers[i].key)
         /\ r.headers[i].key # sAuthorization
         /\ PlainString(r.headers[i].key) /\ PlainString(r.headers[i].value)

(* C1: for a POST request with bodyType json, a valid JSON body, a non-blank auth
   token and user headers as C1_Request says, fromCurl(toCurl(r, url)) has the
   method, a body content that parses to the same JSON value, the auth token and
   an entry for each user header of r.  (The statement of the claim; the code
   does not satisfy it.) *)
C1_RoundTrip ==
    (pc = "reimported" /\ C1_Request(inp.request)) =>
      LET r == inp.request
          q == out.imp.apiRequest
      IN  /\ q.method = r.method
          /\ JsonParse(q.bodyContent).ok
          /\ JsonParse(q.bodyContent).val = JsonParse(r.bodyContent).val
          /\ q.authToken = r.authToken
          /\ \A i \in 1..Len(r.headers) :
               \E j \in 1..Len(q.headers) : q.headers[j] = r.headers[i]

(* C2: no exception leaves toCurl or fromCurl.  (The statement of the claim; the
   code does not satisfy it.) *)
C2_Total ==
    /\ pc = "exported" => ~out.exp.raised
    /\ Imported => ~out.imp.raised

IsUrlPart(part) == part # sCurl /\ ~StartsWith(part, <<"-">>)

(* C3: the string returned by toCurl starts with curl, its last token is the
   final URL in double quotes (the given fullUrl unless GET parameters were
   added), and it has exactly one URL token. *)
C3_CurlFirstUrlLast ==
    Exported =>
      LET c == out.exp.curl
          ps == OutputParts(c)
          r == inp.request
      IN  /\ StartsWith(c, sCurl)
          /\ ps[1] = sCurl
          /\ Len(ps) >= 2
          /\ ps[Len(ps)] = <<DQ>> \o escapeQuotes(out.exp.finalUrl) \o <<DQ>>
          /\ (r.method # sGET \/ validRows(r.parameters) = << >>) => out.exp.finalUrl = inp.text
          /\ Cardinality({i \in 1..Len(ps) : IsUrlPart(ps[i])}) = 1

(* C3 witness: a GET export whose URL took query parameters, with headers *)
C3_Witness ==
    /\ Exported
    /\ inp.request.method = sGET
    /\ out.exp.finalUrl # inp.text
    /\ Len(out.exp.parts) >= 3

sAuthPrefix == sDashH \o <<SP, DQ>> \o sAuthorization \o <<":", SP>>

(* C4: with a non-blank auth token the output has exactly one -H token for the
   header named Authorization, and it carries 'Bearer ' and the token, whatever
   Authorization entries the user headers hold. *)
C4_AuthWins ==
    (Exported /\ Trim(inp.request.authToken) # << >>) =>
      LET ps == OutputParts(out.exp.curl)
          auth == PartsWithPrefix(ps, sAuthPrefix)
      IN  /\ Cardinality(auth) = 1
          /\ \A i \in auth :
               ps[i] = sAuthPrefix \o escapeQuotes(sBearer \o inp.request.authToken) \o <<DQ>>

(* C4 witness: two user headers named Authorization, with different values, and
   an auth token *)
C4_Witness ==
    /\ Exported
    /\ Trim(inp.request.authToken) # << >>
    /\ Len(inp.request.headers) = 2
    /\ \A i \in 1..2 : inp.request.headers[i].key = sAuthorization
                       /\ IsValidRow(inp.request.headers[i])
    /\ inp.request.headers[1].value # inp.request.headers[2].value

(* the row has a non-empty key and a non-empty value *)
NonEmptyRow(row) == row.key # << >> /\ row.value # << >>

(* the value of the last row of rows that Keep keeps and whose key is k *)
LastValue(Keep(_), rows, k) ==
    rows[CHOOSE i \in 1..Len(rows) :
           /\ Keep(rows[i]) /\ rows[i].key = k
           /\ \A j \in (i + 1)..Len(rows) : ~(Keep(rows[j]) /\ rows[j].key = k)].value

KeptKeys(Keep(_), rows) == {rows[i].key : i \in {j \in 1..Len(rows) : Keep(rows[j])}}

(* GET query materialization, for the parameters that Keep keeps *)
GetQueryHolds(Keep(_)) ==
    (Exported /\ inp.request.method = sGET /\ URLParse(inp.text).ok) =>
      LET ps == OutputParts(out.exp.curl)
          rows == inp.request.parameters
          given == URLParse(inp.text)
          final == URLParse(unquoteString(ps[Len(ps)]))
          query == SearchParams(final)
          keys == KeptKeys(Keep, rows)
      IN  /\ final.ok
          /\ final.protocol = given.protocol /\ final.host = given.host
          /\ final.pathname = given.pathname /\ final.hash = given.hash
          /\ \A k \in keys :
               /\ Cardinality({i \in 1..Len(query) : query[i][1] = k}) = 1
               /\ \A i \in 1..Len(query) :
                    query[i][1] = k => query[i][2] = LastValue(Keep, rows, k)
          /\ SelectSeq(query, LAMBDA e : e[1] \notin keys)
               = SelectSeq(SearchParams(given), LAMBDA e : e[1] \notin keys)
          /\ PartsWithPrefix(ps, sDashX) = {}

(* C5 as stated: for a GET request and a parseable fullUrl the URL token is
   fullUrl with, for every parameter with non-empty key and value, exactly one
   query entry for that key carrying the value of the last such parameter; other
   parameters add nothing; the output has no -X flag.  (Violated: a parameter
   whose key or value is only whitespace is non-empty and adds nothing.) *)
C5_Original == GetQueryHolds(NonEmptyRow)

(* C5 amended: the same for every parameter whose key and value are non-blank
   after trimming; parameters with a blank key or value add nothing. *)
C5_GetQuery == GetQueryHolds(IsValidRow)

(* C5 witness: two parameters of one key with different values, put on a URL
   whose query already holds that key twice *)
C5_Witness ==
    /\ Exported /\ inp.request.method = sGET
    /\ Len(SearchParams(URLParse(inp.text))) >= 3
    /\ Len(inp.request.parameters) = 2
    /\ \A i \in 1..2 : IsValidRow(inp.request.parameters[i])
    /\ inp.request.parameters[1].key = inp.request.parameters[2].key
    /\ inp.request.parameters[1].value # inp.request.parameters[2].value
    /\ \E e \in 1..3 : SearchParams(URLParse(inp.text))[e][1] = inp.request.parameters[1].key

sDataPrefix == sDataFlag \o <<SP, SQ>>

(* --data is emitted exactly when a body string results, for the parameters
   that Keep keeps *)
DataIffBodyHolds(Keep(_)) ==
    Exported =>
      LET ps == OutputParts(out.exp.curl)
          r == inp.request
          data == PartsWithPrefix(ps, sDataFlag)
          keys == KeptKeys(Keep, r.parameters)
          expected == IF r.bodyType = "none"
                      THEN r.method # sGET /\ r.method # sHEAD /\ keys # {}
                      ELSE r.bodyContent # << >>
          obj == JsonParse(out.exp.body)
      IN  /\ Cardinality(data) = (IF expected THEN 1 ELSE 0)
          /\ \A i \in data : ps[i] = sDataPrefix \o escapeSingleQuotes(out.exp.body) \o <<SQ>>
          /\ (expected /\ r.bodyType # "none") => out.exp.body = r.bodyContent
          /\ (expected /\ r.bodyType = "none") =>
               /\ obj.ok /\ obj.val[1] = "obj"
               /\ {obj.val[2][i][1] : i \in 1..Len(obj.val[2])} = keys
               /\ \A i \in 1..Len(obj.val[2]) :
                    obj.val[2][i][2] = <<"str", LastValue(Keep, r.parameters, obj.val[2][i][1])>>

(* C6 as stated: toCurl emits --data exactly when a body string results: with
   bodyType none, when the method is neither GET nor HEAD and a parameter has a
   non-empty key and value (the body is the JSON object of those parameters);
   otherwise when bodyContent is non-empty.  (Violated: a parameter whose key or
   value is only whitespace is non-empty and gives no body.) *)
C6_Original == DataIffBodyHolds(NonEmptyRow)

(* C6 amended: the same with the parameters whose key and value are non-blank
   after trimming. *)
C6_DataIffBody == DataIffBodyHolds(IsValidRow)

(* C6 witness: bodyType none, a body method and two parameters that are kept *)
C6_Witness ==
    /\ Exported
    /\ inp.request.bodyType = "none"
    /\ inp.request.method \notin {sGET, sHEAD}
    /\ Len(validRows(inp.request.parameters)) = 2
    /\ PartsWithPrefix(out.exp.parts, sDataFlag) # {}

(* C8: a body is classified json or xml by its content only when the command
   carries no Content-Type header; with an explicit Content-Type that names
   neither application/json nor application/xml a non-empty body is not
   classified json or xml.  (The statement of the claim; the code sniffs the
   content whatever the Content-Type.) *)
C8_SniffOnlyWithoutContentType ==
    Imported =>
      LET ct == contentTypeOf(out.imp.headers)
          t == out.imp.apiRequest.bodyType
      IN  /\ (t = "json" /\ ct # << >>) => Includes(ct, sApplicationJson)
          /\ (t = "xml" /\ ct # << >>) => Includes(ct, sApplicationXml)
          /\ (out.imp.body # << >> /\ ct # << >>
              /\ ~Includes(ct, sApplicationJson) /\ ~Includes(ct, sApplicationXml))
             => t \notin {"json", "xml"}

(* C9: the classifier's rules in order.  An empty body gives none and ''; else
   the JSON rule (Content-Type contains application/json, or the body parses),
   else the XML rule (Content-Type contains application/xml, or the trimmed body
   starts with '<' and holds '>'), else form-data exactly when the Content-Type
   contains application/x-www-form-urlencoded, else raw; the content is the body
   unchanged except for json, where it is the 2-space re-indented JSON when the
   body parses. *)
C9_ClassifierRules ==
    Imported =>
      LET ct == contentTypeOf(out.imp.headers)
          body == out.imp.body
          t == out.imp.apiRequest.bodyType
          content == out.imp.apiRequest.bodyContent
          jsonRule == Includes(ct, sApplicationJson) \/ JsonParse(body).ok
          xmlRule == \/ Includes(ct, sApplicationXml)
                     \/ (StartsWith(Trim(body), <<"<">>) /\ ">" \in CharsOf(Trim(body)))
      IN  /\ body = << >> => (t = "none" /\ content = << >>)
          /\ (body # << >> /\ jsonRule) => t = "json"
          /\ (body # << >> /\ ~jsonRule /\ xmlRule) => t = "xml"
          /\ (body # << >> /\ ~jsonRule /\ ~xmlRule) =>
               /\ t \in {"form-data", "raw"}
               /\ t = "form-data" <=> Includes(ct, sFormUrlencoded)
          /\ t \in {"xml", "form-data", "raw"} => content = body
          /\ t = "json" => content = IF JsonParse(body).ok
                                     THEN JsonStringify(JsonParse(body).val, 2, 0)
                                     ELSE body

(* C9 witness: a form-urlencoded body that neither parses as JSON nor looks like XML *)
C9_Witness ==
    /\ Imported
    /\ out.imp.apiRequest.bodyType = "form-data"
    /\ out.imp.body # << >>
    /\ out.imp.apiRequest.bodyContent = out.imp.body

(* C10: for a string that URL parsing rejects, split returns the string
   unchanged as baseUrl, path '' and no parameters, and fromCurl puts the whole
   (unquoted) URL token in baseUrl with path ''; neither raises. *)
C10_MalformedUrl ==
    /\ (pc = "split" /\ ~URLParse(inp.text).ok) =>
         /\ ~out.split.raised
         /\ out.split.baseUrl = inp.text
         /\ out.split.path = << >>
         /\ out.split.parameters = << >>
    /\ (Imported /\ out.imp.fullUrl # << >> /\ ~URLParse(out.imp.fullUrl).ok) =>
         /\ ~out.imp.raised
         /\ out.imp.apiRequest.baseUrl = out.imp.fullUrl
         /\ out.imp.apiRequest.path = << >>
         /\ \E i \in 1..Len(out.imp.tokens) :
              unquoteString(out.imp.tokens[i]) = out.imp.apiRequest.baseUrl

(* C10 witness: split of an unparseable string with blanks around it *)
C10_Witness ==
    /\ pc = "split"
    /\ ~URLParse(inp.text).ok
    /\ Trim(inp.text) # << >>
    /\ Trim(inp.text) # inp.text

(* the text of s before its first character c (all of s when it has none) *)
Before(s, c) == Sub(s, 1, FindAny(s, 1, {c}) - 1)

(* the text of s from its first character c on ('' when it has none) *)
From(s, c) == Sub(s, FindAny(s, 1, {c}), Len(s))

(* C11: on a parseable URL the splitter gives baseUrl = scheme + '//' + host with
   no path; path = the pathname followed by the hash when there is one, a bare
   '/' pathname counting as ''; parameters = every key/value pair of the query,
   duplicates included, in the order of the URL; the query is not part of path. *)
C11_SplitParts ==
    (pc = "split" /\ URLParse(inp.text).ok) =>
      LET url == URLParse(inp.text)
          r == out.split
          pairs == SelectNonEmpty(SplitOn(url.query, "&"))
          pathOnly == Before(r.path, "#")
      IN  /\ ~r.raised
          /\ r.baseUrl = url.protocol \o <<"/", "/">> \o url.host
          /\ "/" \notin CharsOf(url.host)
          /\ pathOnly = (IF url.pathname = <<"/">> THEN << >> ELSE url.pathname)
          /\ From(r.path, "#") = url.hash
          /\ "?" \notin CharsOf(pathOnly)
          /\ (url.hasQuery /\ url.query # << >>) => ~Includes(pathOnly, url.query)
          /\ Len(r.parameters) = Len(pairs)
          /\ \A i \in 1..Len(pairs) :
                /\ r.parameters[i].key = PctDecode(PlusToSpace(Before(pairs[i], "=")), 1)
                /\ r.parameters[i].value =
                     (IF "=" \in CharsOf(pairs[i])
                      THEN PctDecode(PlusToSpace(Tail(From(pairs[i], "="))), 1)
                      ELSE << >>)

(* C11 witness: a URL with a path, a query that repeats a key, and a hash *)
C11_Witness ==
    /\ pc = "split" /\ URLParse(inp.text).ok
    /\ Len(out.split.parameters) = 2
    /\ out.split.parameters[1].key = out.split.parameters[2].key
    /\ out.split.parameters[1].value # out.split.parameters[2].value
    /\ URLParse(inp.text).hash # << >>
    /\ URLParse(inp.text).pathname # <<"/">>

(* the index of the first token the interpreter reads: a leading curl is passed over *)
FirstToken(tokens) == IF Len(tokens) > 0 /\ tokens[1] = sCurl THEN 2 ELSE 1

(* token i is taken as the argument of a recognized flag: the token before it is
   a recognized flag that is not itself taken as an argument *)
RECURSIVE IsArgument(_, _)
IsArgument(tokens, i) ==
    /\ i > FirstToken(tokens)
    /\ tokens[i - 1] \in RecognizedFlags
    /\ ~IsArgument(tokens, i - 1)

(* the positions where one of flags stands as a flag *)
FlagPositions(tokens, flags) ==
    {i \in FirstToken(tokens)..Len(tokens) : tokens[i] \in flags /\ ~IsArgument(tokens, i)}

(* the positions of the flags among flags that have an argument *)
FlagsWithArgument(tokens, flags) == {i \in FlagPositions(tokens, flags) : i < Len(tokens)}

Last(P) == CHOOSE i \in P : \A j \in P : j <= i

(* C12: the method of every request returned by fromCurl is one of GET, POST,
   PUT, DELETE, PATCH, HEAD, OPTIONS, whatever follows -X/--request.  (The
   statement of the claim; the code stores any upper-cased argument.) *)
C12_MethodInEnum == Imported => out.imp.apiRequest.method \in HttpMethods

(* C13: fromCurl returns method GET when no -X/--request flag has an argument;
   otherwise the upper-cased argument of the last -X/--request flag that has
   one. *)
C13_MethodFromLastFlag ==
    Imported =>
      LET toks == out.imp.tokens
          P == FlagsWithArgument(toks, {sDashX, sRequestFlag})
      IN  out.imp.apiRequest.method = (IF P = {} THEN sGET ELSE ToUpper(toks[Last(P) + 1]))

(* C13 witness: a method flag with a lower-case argument, followed by a method
   flag that has no argument *)
C13_Witness ==
    /\ Imported
    /\ Len(out.imp.tokens) >= 3
    /\ FlagsWithArgument(out.imp.tokens, {sDashX, sRequestFlag}) # {}
    /\ Len(out.imp.tokens) \in FlagPositions(out.imp.tokens, {sDashX, sRequestFlag})
    /\ out.imp.apiRequest.method = <<"P", "U", "T">>

sHeaderFlags == {sDashH, sHeaderFlag}

(* the unquoted argument of the header flag at position i *)
HeaderString(toks, i) == unquoteString(toks[i + 1])

(* the header flags whose argument has a ':' after its first character *)
HeaderFlagsWithKey(toks) ==
    {i \in FlagsWithArgument(toks, sHeaderFlags) :
       LET str == HeaderString(toks, i)
       IN  ":" \in CharsOf(str) /\ str[1] # ":"}

HeaderKey(toks, i) == Trim(Before(HeaderString(toks, i), ":"))

HeaderValue(toks, i) == Trim(Tail(From(HeaderString(toks, i), ":")))

(* the value of the last header flag that names key ('' when none does) *)
LastHeaderValue(toks, key) ==
    LET P == {i \in HeaderFlagsWithKey(toks) : HeaderKey(toks, i) = key}
    IN  IF P = {} THEN << >> ELSE HeaderValue(toks, Last(P))

(* the header entries of a returned request: its rows before the trailing empty
   editor row *)
HeaderEntries(request) == Sub(request.headers, 1, Len(request.headers) - 1)

(* the request's header entries are the keys of
   the header flags, one entry for each key not Removed, with the value of the
   last flag that names it, and no entry for a Removed key *)
HeadersHold(toks, request, Removed(_)) ==
    LET keys == {HeaderKey(toks, i) : i \in HeaderFlagsWithKey(toks)}
        rows == HeaderEntries(request)
    IN  /\ \A j \in 1..Len(rows) : rows[j].key \in keys
        /\ \A k \in keys :
              LET E == {j \in 1..Len(rows) : rows[j].key = k}
              IN  IF Removed(k) THEN E = {}
                  ELSE /\ Cardinality(E) = 1
                       /\ \A j \in E : rows[j].value = LastHeaderValue(toks, k)

(* the value fromCurl looks for a Bearer token in *)
AuthValue(toks) ==
    IF LastHeaderValue(toks, sAuthorization) # << >> THEN LastHeaderValue(toks, sAuthorization)
    ELSE LastHeaderValue(toks, sAuthorizationLower)

(* C14 as stated: each -H/--header argument, unquoted, is split at its first ':'
   into a trimmed key and a trimmed value; for a key given by several flags the
   request holds exactly one header entry, with the value of the last of them.
   (Violated: an Authorization header with a Bearer value leaves no entry.) *)
C14_Original ==
    Imported =>
      LET toks == out.imp.tokens
          rows == HeaderEntries(out.imp.apiRequest)
          several == {k \in {HeaderKey(toks, i) : i \in HeaderFlagsWithKey(toks)} :
                        Cardinality({i \in HeaderFlagsWithKey(toks) : HeaderKey(toks, i) = k}) > 1}
      IN  /\ \A j \in 1..Len(rows) :
                /\ \E i \in HeaderFlagsWithKey(toks) : rows[j].key = HeaderKey(toks, i)
                /\ rows[j].value = LastHeaderValue(toks, rows[j].key)
          /\ \A k \in several :
                Cardinality({j \in 1..Len(rows) : rows[j].key = k}) = 1

(* C14 amended: the same, except that when the value of Authorization (of
   authorization when that is missing or empty) starts with 'Bearer ', the headers
   named authorization in any letter case are left out of the request and the
   rest of that value is the authToken; an argument with no ':' or with ':' as
   its first character gives no header. *)
C14_HeaderParsing ==
    Imported =>
      LET toks == out.imp.tokens
          auth == AuthValue(toks)
          bearer == StartsWith(auth, sBearer)
      IN  /\ HeadersHold(toks, out.imp.apiRequest,
                         LAMBDA k : bearer /\ ToLower(k) = sAuthorizationLower)
          /\ out.imp.apiRequest.authToken =
               (IF bearer THEN Sub(auth, Len(sBearer) + 1, Len(auth)) ELSE << >>)

(* C14 witness: two header flags that name one key, the last with a value that
   holds a colon *)
C14_Witness ==
    /\ Imported
    /\ Cardinality(HeaderFlagsWithKey(out.imp.tokens)) = 2
    /\ \A i, j \in HeaderFlagsWithKey(out.imp.tokens) :
          HeaderKey(out.imp.tokens, i) = HeaderKey(out.imp.tokens, j)
    /\ Len(HeaderEntries(out.imp.apiRequest)) = 1
    /\ ":" \in CharsOf(HeaderEntries(out.imp.apiRequest)[1].value)

sBodyFlags == {sDashD, sDataFlag, sDataRawFlag, sDataBinaryFlag, sDataUrlencodeFlag}

(* the command as written has spaces as its only whitespace and no backslash, so
   its tokens as written are its segments between the spaces outside quotes *)
PlainCommand(text) == CharsOf(text) \cap {NL, TAB, BS} = {}

(* C15: the body interpreted by fromCurl is the argument of the last body flag of
   the command as written, with its one pair of wrapping quotes removed and every
   character between them preserved; earlier body arguments are discarded.  (The
   statement of the claim; the code collapses whitespace inside the quoted
   argument before it tokenizes.) *)
C15_BodyVerbatim ==
    (pc = "imported" /\ PlainCommand(inp.text)) =>
      LET written == Segments(inp.text)
          P == FlagsWithArgument(written, sBodyFlags)
      IN  out.imp.body = (IF P = {} THEN << >> ELSE unquoteString(written[Last(P) + 1]))

(* the positions of the tokens that neither start with '-' nor are taken as the
   argument of a recognized flag *)
UrlPositions(tokens) ==
    {i \in FirstToken(tokens)..Len(tokens) :
       ~StartsWith(tokens[i], <<"-">>) /\ ~IsArgument(tokens, i)}

(* C16: the fullUrl returned by fromCurl is the unquoted last token that does not
   start with '-' and is not taken as the argument of a recognized flag, a leading
   curl token left aside; it is '' when there is no such token. *)
C16_UrlIsLastFreeToken ==
    Imported =>
      LET toks == out.imp.tokens
          U == UrlPositions(toks)
      IN  out.imp.fullUrl = (IF U = {} THEN << >> ELSE unquoteString(toks[Last(U)]))

(* C16 witness: a URL token followed by a recognized flag whose argument does
   not start with '-' *)
C16_Witness ==
    /\ Imported
    /\ UrlPositions(out.imp.tokens) # {}
    /\ out.imp.fullUrl # << >>
    /\ IsArgument(out.imp.tokens, Len(out.imp.tokens))
    /\ ~StartsWith(out.imp.tokens[Len(out.imp.tokens)], <<"-">>)

(* C17: when a recognized flag is the last token (and not itself an argument),
   fromCurl returns what it returns for the command without that token: the
   field the flag would set keeps its value, the other fields are unchanged, and
   nothing is raised. *)
C17_MissingArgument ==
    Imported =>
      LET toks == out.imp.tokens
          n == Len(toks)
      IN  n \in FlagPositions(toks, RecognizedFlags) =>
            LET without == curlToApiRequest(Join(Sub(toks, 1, n - 1), <<SP>>))
            IN  /\ ~out.imp.raised
                /\ out.imp.apiRequest = without.apiRequest
                /\ out.imp.fullUrl = without.fullUrl

(* C17 witness: a command that sets the method and ends with a recognized flag *)
C17_Witness ==
    /\ Imported
    /\ Len(out.imp.tokens) \in FlagPositions(out.imp.tokens, RecognizedFlags)
    /\ out.imp.apiRequest.method # sGET

(* the positions of the unrecognized flags that are not taken as an argument *)
UnknownFlags(tokens) ==
    {i \in FirstToken(tokens)..Len(tokens) :
       /\ StartsWith(tokens[i], <<"-">>) /\ tokens[i] \notin RecognizedFlags
       /\ ~IsArgument(tokens, i)}

RemoveAt(seq, i) == Sub(seq, 1, i - 1) \o Sub(seq, i + 1, Len(seq))

(* C18: an unrecognized flag that is not taken as an argument changes none of
   method, URL, headers and body: they are what interpreting the tokens without
   it gives, so interpretation goes on with the token after it. *)
C18_UnknownFlagsIgnored ==
    Imported =>
      LET toks == out.imp.tokens
      IN  \A i \in UnknownFlags(toks) :
            LET st == InterpretLoop(RemoveAt(toks, i), FirstToken(toks), InitialInterpretation)
            IN  /\ out.imp.apiRequest.method = st.method
                /\ out.imp.fullUrl = st.fullUrl
                /\ out.imp.headers = st.headers
                /\ out.imp.body = st.body

(* C18 witness: an unrecognized flag followed by a token that is read as the URL *)
C18_Witness ==
    /\ Imported
    /\ \E i \in UnknownFlags(out.imp.tokens) :
          /\ i < Len(out.imp.tokens)
          /\ i + 1 \in UrlPositions(out.imp.tokens)
    /\ out.imp.fullUrl # << >>

(* the -H token toCurl writes for a header *)
HeaderToken(key, value) ==
    sDashH \o <<SP, DQ>> \o FlatMap(key, [c \in CharsOf(key) |-> IF c = DQ THEN <<BS, DQ>> ELSE <<c>>])
    \o <<":", SP>> \o FlatMap(value, [c \in CharsOf(value) |-> IF c = DQ THEN <<BS, DQ>> ELSE <<c>>])
    \o <<DQ>>

(* the positions of the -H tokens whose header is named content-type in any case *)
ContentTypeParts(ps) ==
    {i \in 1..Len(ps) :
       StartsWith(ToLower(ps[i]), ToLower(sDashH) \o <<SP, DQ>> \o sContentTypeLower \o <<":">>)}

InjectedType(bodyType) ==
    CASE bodyType = "json" -> sApplicationJson
      [] bodyType = "xml" -> sApplicationXml
      [] bodyType = "form-data" -> sFormUrlencoded
      [] bodyType = "raw" -> sTextPlain
      [] OTHER -> sApplicationJson

(* Content-Type injection, a parameter counting when Counts says so *)
InjectionHolds(Counts(_)) ==
    Exported =>
      LET r == inp.request
          ps == OutputParts(out.exp.curl)
          user == KeptKeys(LAMBDA row : IsValidRow(row) /\ ToLower(row.key) = sContentTypeLower,
                           r.headers)
          inject == /\ r.method \notin {sGET, sHEAD}
                    /\ user = {}
                    /\ \/ r.bodyType # "none"
                       \/ \E i \in 1..Len(r.parameters) : Counts(r.parameters[i])
          ct == ContentTypeParts(ps)
      IN  IF inject
          THEN /\ Cardinality(ct) = 1
               /\ \A i \in ct : ps[i] = HeaderToken(sContentType, InjectedType(r.bodyType))
          ELSE /\ Cardinality(ct) = Cardinality(user)
               /\ \A k \in user :
                     \E i \in ct : ps[i] = HeaderToken(k, LastValue(IsValidRow, r.headers, k))

(* C19 as stated: toCurl adds a Content-Type header exactly when the method is
   neither GET nor HEAD, no header built so far is named content-type in any
   letter case, and bodyType is json, xml, form-data or raw, or is none with at
   least one parameter of non-empty key and value; the value follows the
   bodyType; a content-type header of the user is never overwritten.  (Violated:
   a parameter whose key or value is only whitespace does not count.) *)
C19_Original == InjectionHolds(NonEmptyRow)

(* C19 amended: the same, the parameters that count being those whose key and
   value are non-blank after trimming. *)
C19_ContentTypeInjection == InjectionHolds(IsValidRow)

(* C19 witness: a POST export with a user header named content-type in lower
   case, which is kept, and no injected header *)
C19_Witness ==
    /\ Exported
    /\ inp.request.method \notin {sGET, sHEAD}
    /\ \E i \in 1..Len(inp.request.headers) :
          /\ IsValidRow(inp.request.headers[i])
          /\ inp.request.headers[i].key = sContentTypeLower
    /\ Cardinality(ContentTypeParts(out.exp.parts)) = 1

(* the row is an empty editor row: its key and its value are both empty *)
EmptyBoth(row) == row.key = << >> /\ row.value = << >>

(* the start of the -H token toCurl writes for a header named key *)
HeaderTokenStart(key) ==
    sDashH \o <<SP, DQ>> \o FlatMap(key, [c \in CharsOf(key) |-> IF c = DQ THEN <<BS, DQ>> ELSE <<c>>])
    \o <<":", SP>>

(* C20: in what toCurl builds (headers, GET query entries, fields of the
   synthesized JSON body) exactly the rows whose key and value are both empty are
   left out: every other header row has its -H token, every other parameter row
   its query entry (GET, parseable URL) or its body field (bodyType none, a
   method with a body), and an empty row gives no -H token.  (The statement of
   the claim; the code leaves out every row whose key or value is blank.) *)
C20_OnlyEmptyRowsLeftOut ==
    Exported =>
      LET r == inp.request
          ps == OutputParts(out.exp.curl)
          final == URLParse(unquoteString(ps[Len(ps)]))
          obj == JsonParse(out.exp.body)
      IN  /\ \A i \in 1..Len(r.headers) :
                ~EmptyBoth(r.headers[i]) =>
                   PartsWithPrefix(ps, HeaderTokenStart(r.headers[i].key)) # {}
          /\ PartsWithPrefix(ps, HeaderTokenStart(<< >>) \o <<DQ>>) = {}
          /\ (r.method = sGET /\ URLParse(inp.text).ok) =>
                \A i \in 1..Len(r.parameters) :
                   ~EmptyBoth(r.parameters[i]) =>
                      \E j \in 1..Len(SearchParams(final)) :
                         SearchParams(final)[j][1] = r.parameters[i].key
          /\ (r.bodyType = "none" /\ r.method \notin {sGET, sHEAD}) =>
                \A i \in 1..Len(r.parameters) :
                   ~EmptyBoth(r.parameters[i]) =>
                      /\ obj.ok /\ obj.val[1] = "obj"
                      /\ \E j \in 1..Len(obj.val[2]) : obj.val[2][j][1] = r.parameters[i].key

(* the group of a part of the output: 0 curl, 1 method, 2 header, 3 data, 4 URL *)
PartGroup(part) ==
    IF part = sCurl THEN 0
    ELSE IF StartsWith(part, sDashX \o <<SP>>) THEN 1
    ELSE IF StartsWith(part, sDashH \o <<SP>>) THEN 2
    ELSE IF StartsWith(part, sDataFlag \o <<SP>>) THEN 3
    ELSE 4

(* C23: the parts of the output are, in this order, curl; '-X <METHOD>' exactly
   when the method is not GET; one -H part for each header of the built header
   map, in its order; at most one --data part; the URL part; no part of an
   earlier group follows a part of a later group. *)
C23_TokenOrder ==
    Exported =>
      LET ps == OutputParts(out.exp.curl)
          r == inp.request
          G(g) == {i \in 1..Len(ps) : PartGroup(ps[i]) = g}
          all == allHeaders(r)
      IN  /\ G(0) = {1}
          /\ \A i \in 1..Len(ps) : \A j \in i..Len(ps) : PartGroup(ps[i]) <= PartGroup(ps[j])
          /\ G(1) = (IF r.method # sGET THEN {2} ELSE {})
          /\ \A i \in G(1) : ps[i] = sDashX \o <<SP>> \o r.method
          /\ Cardinality(G(2)) = Len(all)
          /\ \A k \in 1..Len(all) :
                ps[1 + Cardinality(G(1)) + k] = headerPart(all[k][1], all[k][2])
          /\ Cardinality(G(3)) <= 1
          /\ G(4) = {Len(ps)}
          /\ StartsWith(ps[Len(ps)], <<DQ>>)

(* C23 witness: a method flag, three header parts, a data part and the URL *)
C23_Witness ==
    /\ Exported
    /\ inp.request.method # sGET
    /\ Len(allHeaders(inp.request)) >= 3
    /\ Len(OutputParts(out.exp.curl)) = 7
    /\ PartGroup(OutputParts(out.exp.curl)[6]) = 3

(* C24: for a request with a method other than GET, bodyType raw and a non-empty
   body that neither parses as JSON nor looks like XML, fromCurl(toCurl(r, url))
   has bodyType raw and the same bodyContent, single quotes in the body
   included.  (The statement of the claim; the code does not satisfy it.) *)
C24_RawBodyRoundTrip ==
    (/\ pc = "reimported"
     /\ inp.request.method # sGET
     /\ inp.request.bodyType = "raw"
     /\ inp.request.bodyContent # << >>
     /\ ~isJsonString(inp.request.bodyContent)
     /\ ~isXmlString(inp.request.bodyContent)) =>
      /\ out.imp.apiRequest.bodyType = "raw"
      /\ out.imp.apiRequest.bodyContent = inp.request.bodyContent

(* the -H parts whose header name is authorization in any spelling *)
AuthorizationParts(ps) ==
    {i \in 1..Len(ps) :
       /\ PartGroup(ps[i]) = 2
       /\ ToLower(Before(Sub(ps[i], Len(sDashH) + 3, Len(ps[i])), ":")) = sAuthorizationLower}

(* C25: with a non-blank auth token exactly one -H part of the output has a name
   equal to authorization when compared case-insensitively.  (The statement of
   the claim; the code does not satisfy it.) *)
C25_OneAuthorizationHeader ==
    (Exported /\ Trim(inp.request.authToken) # << >>) =>
      Cardinality(AuthorizationParts(OutputParts(out.exp.curl))) = 1

(* the keys of the command's header flags that spell authorization *)
AuthorizationKeys(toks) ==
    {k \in {HeaderKey(toks, i) : i \in HeaderFlagsWithKey(toks)} :
       ToLower(k) = sAuthorizationLower}

(* C26: every authorization header of the command (each spelling a header of
   its own) is the auth token of the returned request, its value starting with
   'Bearer ', or an entry of the returned headers; and the request never has both
   a non-empty auth token and a header entry named authorization.  (The
   statement of the claim; the code does not satisfy it.) *)
C26_NoCredentialLost ==
    Imported =>
      LET toks == out.imp.tokens
          q == out.imp.apiRequest
          rows == HeaderEntries(q)
      IN  /\ \A k \in AuthorizationKeys(toks) :
                LET v == LastHeaderValue(toks, k)
                IN  \/ StartsWith(v, sBearer) /\ q.authToken = Sub(v, Len(sBearer) + 1, Len(v))
                    \/ \E j \in 1..Len(rows) : rows[j].key = k /\ rows[j].value = v
          /\ q.authToken # << >> =>
                \A j \in 1..Len(rows) : ToLower(rows[j].key) # sAuthorizationLower

(* C21: in every state of the store reached by actions of the request slice,
   and in every request returned by fromCurl, parameters and headers each hold at
   least one entry.  (The statement of the claim; the code does not satisfy
   it.) *)
C21_AtLeastOneRow ==
    /\ Len(store.parameters) >= 1 /\ Len(store.headers) >= 1
    /\ Imported => /\ Len(out.imp.apiRequest.parameters) >= 1
                   /\ Len(out.imp.apiRequest.headers) >= 1

(* C21, the part about fromCurl alone *)
C21_FromCurlRows ==
    Imported => /\ Len(out.imp.apiRequest.parameters) >= 1
                /\ Len(out.imp.apiRequest.headers) >= 1

(* the rows of a request before the trailing empty editor row *)
ParameterEntries(request) == Sub(request.parameters, 1, Len(request.parameters) - 1)

SameRows(s, request) == s.headers = request.headers /\ s.parameters = request.parameters

(* C28: after the Import cURL button has run on a non-blank command, the headers
   of the store are exactly the headers of the request parsed from the command
   and its parameters exactly that request's parameters.  (The statement of the
   claim; the code does not satisfy it.) *)
C28_ImportReplaces ==
    (pc = "importedCurl" /\ Trim(inp.text) # << >>) =>
      SameRows(store, curlToApiRequest(inp.text).apiRequest)

(* C22: under HookLive every sendRequest call that has passed the URL check
   settles, with loading set back to false, whatever the server does; and a call
   settled by the timer records the error response 'Request timed out'.  (The
   statement of the claim; the code does not satisfy it.) *)
C22_EverySendSettles ==
    /\ \A c \in Calls : (hook.calls[c].pc = "fetching") ~> (hook.calls[c].pc = "done")
    /\ [][\A c \in Calls :
            (hook.calls[c].pc = "aborted" /\ hook'.calls[c].pc = "done") =>
               (hook'.response.error = sTimedOut /\ ~hook'.loading)]_vars

(* C22, the part that holds: a call still waiting for fetch is settled or gets
   the server's headers, and the timer's abort is recorded as 'Request timed
   out' *)
C22_FetchIsBounded ==
    /\ \A c \in Calls :
         (hook.calls[c].pc = "fetching") ~> (hook.calls[c].pc \in {"reading", "done"})
    /\ [][\A c \in Calls :
            (hook.calls[c].pc = "aborted" /\ hook'.calls[c].pc = "done") =>
               (hook'.response.error = sTimedOut /\ ~hook'.loading)]_vars

(* C27: loading is true whenever a sendRequest call has started and not yet
   settled.  (The statement of the claim; the code does not satisfy it.) *)
C27_LoadingWhileInFlight == (\E c \in Calls : InFlight(c)) => hook.loading

(* the ids of history.favorites, and of the stored requests marked favorite *)
FavoriteIds == {history.favorites[i] : i \in 1..Len(history.favorites)}
MarkedIds == {history.requests[i].id : i \in {j \in 1..Len(history.requests) :
                                                history.requests[j].isFavorite}}

(* C29: after any sequence of saveRequest, toggleFavorite and deleteRequest from
   the empty history, history.favorites holds exactly the ids of the stored
   requests whose isFavorite is true, each once.  (The statement of the claim;
   the code does not satisfy it.) *)
C29_FavoritesConsistent ==
    /\ FavoriteIds = MarkedIds
    /\ Cardinality(FavoriteIds) = Len(history.favorites)

(* C29 for the saves the application makes (apiRequestToSaved: isFavorite
   false): the favorites name only stored requests *)
C29_FavoritesStored ==
    [][(\E r \in SavedRequests : ~r.isFavorite /\ history' = saveRequest(history, r)) =>
         \A i \in 1..Len(history'.favorites) :
            \E j \in 1..Len(history'.requests) :
               history'.requests[j].id = history'.favorites[i]]_vars

(* the calls of kind among the calls of the log, as positions of the list *)
LogOf(kind) ==
    LET calls == SelectSeq(batch.log, LAMBDA e : e[1] = kind)
    IN  [i \in 1..Len(calls) |-> calls[i][2]]

Failing == {k \in 1..Len(batch.commands) : ~batch.commands[k].executes}

FirstFailing == CHOOSE k \in Failing : \A j \in Failing : k <= j

(* the commands before the first failing one that report canUndo, last first *)
RECURSIVE Undoable(_)
Undoable(k) ==
    IF k < 1 THEN << >>
    ELSE (IF batch.commands[k].canUndo THEN <<k>> ELSE << >>) \o Undoable(k - 1)

(* the rollback of the first execute of a batch whose command FirstFailing fails *)
RolledBack ==
    /\ LogOf("execute") = [k \in 1..FirstFailing |-> k]
    /\ LogOf("undo") = Undoable(FirstFailing - 1)
    /\ batch.error = <<"execute", FirstFailing>>
    /\ ~canUndo(batch)

(* C30: after execute on a new batch: when a command fails, no later command
   was executed, every earlier command that reports canUndo was undone exactly
   once, in reverse order, the command's error is raised and canUndo() is false;
   when none fails all commands were executed once in list order.  (The
   statement of the claim; the code does not satisfy it.) *)
C30_Rollback ==
    (batch.calls = 1 /\ batch.op = "execute") =>
      IF Failing = {}
      THEN /\ batch.log = [k \in 1..Len(batch.commands) |-> <<"execute", k>>]
           /\ batch.error = NoError
      ELSE RolledBack

(* C30 for batches none of whose undo throws *)
C30_RollbackWhenUndoReturns ==
    (/\ batch.calls = 1 /\ batch.op = "execute"
     /\ \A k \in 1..Len(batch.commands) : batch.commands[k].undoes) =>
      IF Failing = {}
      THEN /\ batch.log = [k \in 1..Len(batch.commands) |-> <<"execute", k>>]
           /\ batch.error = NoError
      ELSE RolledBack

====
